---- MODULE Spec2Model ----
(***************************************************************************)
(* The Tip4, Tip4' and Tip5 sponge hashers of crate crypto (hash::tip) and  *)
(* the MDS kernel they share, as a state machine over machine words.       *)
(***************************************************************************)
EXTENDS Integers, Sequences, FiniteSets, TLC

(***************************************************************************)
(* Machine words.  Integers of the model stay below 2^31, so a u64 is kept *)
(* as four 16-bit limbs and a u128 as eight, least significant limb first; *)
(* a byte array is a sequence of bytes, element k + 1 of the sequence      *)
(* being the byte at offset k.                                             *)
(***************************************************************************)
Byte == 0..255

U64Zero == <<0, 0, 0, 0>>

\* u64::to_le_bytes
to_le_bytes(x) ==
    <<x[1] % 256, x[1] \div 256, x[2] % 256, x[2] \div 256,
      x[3] % 256, x[3] \div 256, x[4] % 256, x[4] \div 256>>

\* u64::from_le_bytes
from_le_bytes(b) ==
    <<b[1] + 256 * b[2], b[3] + 256 * b[4], b[5] + 256 * b[6], b[7] + 256 * b[8]>>

\* `n as u64` for a count n, 0 <= n < 2^31
U64Of(n) == <<n % 65536, n \div 65536, 0, 0>>

\* u64::overflowing_add: elements 1..4 are the wrapped sum, element 5 the carry
overflowing_add(a, b) ==
    LET s1 == a[1] + b[1]
        s2 == a[2] + b[2] + (s1 \div 65536)
        s3 == a[3] + b[3] + (s2 \div 65536)
        s4 == a[4] + b[4] + (s3 \div 65536)
    IN  <<s1 % 65536, s2 % 65536, s3 % 65536, s4 % 65536, s4 \div 65536>>

\* u64::overflowing_sub: elements 1..4 are the wrapped difference, element 5 the borrow
overflowing_sub(a, b) ==
    LET d1 == a[1] - b[1]
        d2 == a[2] - b[2] + (d1 \div 65536)
        d3 == a[3] - b[3] + (d2 \div 65536)
        d4 == a[4] - b[4] + (d3 \div 65536)
    IN  <<d1 % 65536, d2 % 65536, d3 % 65536, d4 % 65536, -(d4 \div 65536)>>

\* the low and the high half of a u128: `x as u64` and `(x >> 64) as u64`
Low64(x) == <<x[1], x[2], x[3], x[4]>>

High64(x) == <<x[5], x[6], x[7], x[8]>>

wrapping_add(a, b) == Low64(overflowing_add(a, b))

wrapping_sub(a, b) == Low64(overflowing_sub(a, b))

\* a < b on u64
LessU64(a, b) == overflowing_sub(a, b)[5] = 1

\* the product of a u64 in limbs and a u64 in bytes, column by column: column k
\* collects the products of weight 256^(k - 1)
MulCols(a, b) ==
    <<a[1] * b[1],
      a[1] * b[2],
      a[1] * b[3] + a[2] * b[1],
      a[1] * b[4] + a[2] * b[2],
      a[1] * b[5] + a[2] * b[3] + a[3] * b[1],
      a[1] * b[6] + a[2] * b[4] + a[3] * b[2],
      a[1] * b[7] + a[2] * b[5] + a[3] * b[3] + a[4] * b[1],
      a[1] * b[8] + a[2] * b[6] + a[3] * b[4] + a[4] * b[2],
      a[2] * b[7] + a[3] * b[5] + a[4] * b[3],
      a[2] * b[8] + a[3] * b[6] + a[4] * b[4],
      a[3] * b[7] + a[4] * b[5],
      a[3] * b[8] + a[4] * b[6],
      a[4] * b[7],
      a[4] * b[8]>>

\* column k of the product, 0 outside 1..14
Col(columns, k) == IF k >= 1 /\ k <= Len(columns) THEN columns[k] ELSE 0

\* what the columns put at byte offset k - 1: the low byte of column k, the
\* second byte of column k - 1, the rest of column k - 2
ByteSum(columns, k) ==
    (Col(columns, k) % 256) + ((Col(columns, k - 1) \div 256) % 256)
        + (Col(columns, k - 2) \div 65536)

\* the same two bytes at a time, as 16-bit limbs not yet carried
LimbSums(columns) ==
    <<ByteSum(columns, 1) + 256 * ByteSum(columns, 2),
      ByteSum(columns, 3) + 256 * ByteSum(columns, 4),
      ByteSum(columns, 5) + 256 * ByteSum(columns, 6),
      ByteSum(columns, 7) + 256 * ByteSum(columns, 8),
      ByteSum(columns, 9) + 256 * ByteSum(columns, 10),
      ByteSum(columns, 11) + 256 * ByteSum(columns, 12),
      ByteSum(columns, 13) + 256 * ByteSum(columns, 14),
      ByteSum(columns, 15) + 256 * ByteSum(columns, 16)>>

\* the carry run from each limb into the next
CarryLimbs(l) ==
    LET h1 == l[1]
        h2 == l[2] + (h1 \div 65536)
        h3 == l[3] + (h2 \div 65536)
        h4 == l[4] + (h3 \div 65536)
        h5 == l[5] + (h4 \div 65536)
        h6 == l[6] + (h5 \div 65536)
        h7 == l[7] + (h6 \div 65536)
        h8 == l[8] + (h7 \div 65536)
    IN  <<h1 % 65536, h2 % 65536, h3 % 65536, h4 % 65536,
          h5 % 65536, h6 % 65536, h7 % 65536, h8 % 65536>>

\* (a as u128) * (b as u128)
WideningMul(a, b) == CarryLimbs(LimbSums(MulCols(a, to_le_bytes(b))))

\* 2^s for a shift amount s
RECURSIVE Pow2(_)
Pow2(s) == IF s = 0 THEN 1 ELSE 2 * Pow2(s - 1)

\* x * m + c on u64 for small m and c, with the limb carried out of the top
\* as element 5
MulSmall(x, m, c) ==
    LET h1 == x[1] * m + c
        h2 == x[2] * m + (h1 \div 65536)
        h3 == x[3] * m + (h2 \div 65536)
        h4 == x[4] * m + (h3 \div 65536)
    IN  <<h1 % 65536, h2 % 65536, h3 % 65536, h4 % 65536, h4 \div 65536>>

\* (x as u128) << s for a u64 x and 0 <= s < 15
ShlWide(x, s) == MulSmall(x, Pow2(s), 0) \o <<0, 0, 0>>

\* the u64 written in decimal as five groups of four digits:
\* 18446744069414584321 is Dec(<<1844, 6744, 0694, 1458, 4321>>)
Dec(g) ==
    Low64(MulSmall(Low64(MulSmall(Low64(MulSmall(Low64(MulSmall(
        U64Of(g[1]), 10000, g[2])), 10000, g[3])), 10000, g[4])), 10000, g[5]))

(***************************************************************************)
(* Field adapter (crate math, fields::f64).  A BaseElement is the u64      *)
(* holding its Montgomery form x * 2^64 mod p, p = 2^64 - 2^32 + 1.        *)
(***************************************************************************)
\* BaseElement::MODULUS = p = 0xFFFFFFFF00000001
MODULUS == <<1, 0, 65535, 65535>>

\* 2^128 mod p = 0xFFFFFFFE00000001: multiplying by it takes a value into Montgomery form
R2 == <<1, 0, 65534, 65535>>

\* 2^32 - 1 = 2^64 mod p, the adjustment after a borrow or a carry
Epsilon == <<65535, 65535, 0, 0>>

\* x < p: the word is a reduced representation
IsCanonical(x) == LessU64(x, MODULUS)

\* mont_red_cst, last step: r - 0u32.wrapping_sub(c as u32) for (r, c) = xh.overflowing_sub(b)
BorrowAdjust(rc) == IF rc[5] = 1 THEN wrapping_sub(Low64(rc), Epsilon) ELSE Low64(rc)

\* mont_red_cst, middle step: b = a.wrapping_sub(a >> 32).wrapping_sub(e as u64)
\* for (a, e) = xl.overflowing_add(xl << 32)
MontRedB(ae) ==
    wrapping_sub(wrapping_sub(Low64(ae), <<ae[3], ae[4], 0, 0>>), <<ae[5], 0, 0, 0>>)

\* mont_red_cst(x: u128) -> u64: x * 2^(-64) mod p
mont_red_cst(x) ==
    BorrowAdjust(overflowing_sub(High64(x),
        MontRedB(overflowing_add(Low64(x), <<0, 0, x[1], x[2]>>))))

\* BaseElement::from_mont(u64) and BaseElement::inner(): the raw Montgomery word
from_mont(w) == w

inner(x) == x

\* BaseElement::new(value: u64): value * 2^64 mod p
BaseElement_new(value) == from_mont(mont_red_cst(WideningMul(value, R2)))

\* BaseElement::as_int(): the integer in 0..p-1 the element stands for
as_int(x) == mont_red_cst(<<x[1], x[2], x[3], x[4], 0, 0, 0, 0>>)

\* a + b, computed as a - (p - b) with the borrow adjusted
FieldAdd(x, y) == BorrowAdjust(overflowing_sub(x, wrapping_sub(MODULUS, y)))

\* a - b with the borrow adjusted
FieldSub(x, y) == BorrowAdjust(overflowing_sub(x, y))

FieldMul(x, y) == from_mont(mont_red_cst(WideningMul(inner(x), inner(y))))

\* exp7, from the square x2: x4 = x2.square(), x3 = x * x2, x3 * x4
Exp7From(x, x2) == FieldMul(FieldMul(x, x2), FieldMul(x2, x2))

\* BaseElement::exp7(): x^7
exp7(x) == CHOOSE y \in { Exp7From(x, x2) : x2 \in { FieldMul(x, x) } } : TRUE

FieldZERO == U64Zero

FieldONE == BaseElement_new(U64Of(1))

\* BaseElement::new of every entry of a row, of a table, of decimal numbers
ElementsOfRow(row) == [c \in DOMAIN row |-> BaseElement_new(Dec(row[c]))] \o <<>>

ElementsOf(table) == [r \in DOMAIN table |-> ElementsOfRow(table[r])] \o <<>>

(***************************************************************************)
(* The tables of the three instantiations.                                 *)
(***************************************************************************)
\* tip4/mod.rs: LOOKUP_TABLE, the S-box lookup table
LOOKUP_TABLE_Tip4 ==
    <<
      0, 7, 26, 63, 124, 215, 85, 254, 214, 228, 45, 185, 140, 173, 33, 240, 29, 177, 176, 32,
      8, 110, 87, 202, 204, 99, 150, 106, 230, 14, 235, 128, 213, 239, 212, 138, 23, 130, 208,
      6, 44, 71, 93, 116, 146, 189, 251, 81, 199, 97, 38, 28, 73, 179, 95, 84, 152, 48, 35, 119,
      49, 88, 242, 3, 148, 169, 72, 120, 62, 161, 166, 83, 175, 191, 137, 19, 100, 129, 112, 55,
      221, 102, 218, 61, 151, 237, 68, 164, 17, 147, 46, 234, 203, 216, 22, 141, 65, 57, 123,
      12, 244, 54, 219, 231, 96, 77, 180, 154, 5, 253, 133, 165, 98, 195, 205, 134, 245, 30, 9,
      188, 59, 142, 186, 197, 181, 144, 92, 31, 224, 163, 111, 74, 58, 69, 113, 196, 67, 246,
      225, 10, 121, 50, 60, 157, 90, 122, 2, 250, 101, 75, 178, 159, 24, 36, 201, 11, 243, 132,
      198, 190, 114, 233, 39, 52, 21, 209, 108, 238, 91, 187, 18, 104, 194, 37, 153, 34, 200,
      143, 126, 155, 236, 118, 64, 80, 172, 89, 94, 193, 135, 183, 86, 107, 252, 13, 167, 206,
      136, 220, 207, 103, 171, 160, 76, 182, 227, 217, 158, 56, 174, 4, 66, 109, 139, 162, 184,
      211, 249, 47, 125, 232, 117, 43, 16, 42, 127, 20, 241, 25, 149, 105, 156, 51, 53, 168,
      145, 247, 223, 79, 78, 226, 15, 222, 82, 115, 70, 210, 27, 41, 1, 170, 40, 131, 192, 229,
      248, 255
    >>

\* tip4/mod.rs: MDS, the MDS matrix, each entry the argument of BaseElement::new
MDS_Tip4_decimal ==
    <<
      <<
        <<1844, 6742, 6263, 0557, 2865>>, <<1210, 3477, 6722, 9108, 1763>>, <<0206, 0678, 3302, 7525, 3760>>,
        <<0237, 9906, 2573, 8388, 0660>>, <<0001, 3229, 8693, 6316, 7232>>, <<1210, 3947, 5800, 5128, 5184>>,
        <<0363, 1871, 6502, 6064, 0512>>, <<1837, 5880, 6228, 4700, 3104>>, <<1844, 6743, 7000, 4739, 6865>>,
        <<0749, 1684, 1775, 4999, 1903>>, <<1632, 8081, 9454, 9004, 3393>>, <<1160, 3770, 4610, 4647, 0701>>,
        <<1843, 3515, 2909, 7311, 0273>>, <<0518, 5371, 2691, 6599, 7376>>, <<1487, 2856, 3158, 8244, 6081>>,
        <<0454, 2937, 7562, 8628, 9441>>
      >>,
      <<
        <<0454, 2937, 7562, 8628, 9441>>, <<1844, 6742, 6263, 0557, 2865>>, <<1210, 3477, 6722, 9108, 1763>>,
        <<0206, 0678, 3302, 7525, 3760>>, <<0237, 9906, 2573, 8388, 0660>>, <<0001, 3229, 8693, 6316, 7232>>,
        <<1210, 3947, 5800, 5128, 5184>>, <<0363, 1871, 6502, 6064, 0512>>, <<1837, 5880, 6228, 4700, 3104>>,
        <<1844, 6743, 7000, 4739, 6865>>, <<0749, 1684, 1775, 4999, 1903>>, <<1632, 8081, 9454, 9004, 3393>>,
        <<1160, 3770, 4610, 4647, 0701>>, <<1843, 3515, 2909, 7311, 0273>>, <<0518, 5371, 2691, 6599, 7376>>,
        <<1487, 2856, 3158, 8244, 6081>>
      >>,
      <<
        <<1487, 2856, 3158, 8244, 6081>>, <<0454, 2937, 7562, 8628, 9441>>, <<1844, 6742, 6263, 0557, 2865>>,
        <<1210, 3477, 6722, 9108, 1763>>, <<0206, 0678, 3302, 7525, 3760>>, <<0237, 9906, 2573, 8388, 0660>>,
        <<0001, 3229, 8693, 6316, 7232>>, <<1210, 3947, 5800, 5128, 5184>>, <<0363, 1871, 6502, 6064, 0512>>,
        <<1837, 5880, 6228, 4700, 3104>>, <<1844, 6743, 7000, 4739, 6865>>, <<0749, 1684, 1775, 4999, 1903>>,
        <<1632, 8081, 9454, 9004, 3393>>, <<1160, 3770, 4610, 4647, 0701>>, <<1843, 3515, 2909, 7311, 0273>>,
        <<0518, 5371, 2691, 6599, 7376>>
      >>,
      <<
        <<0518, 5371, 2691, 6599, 7376>>, <<1487, 2856, 3158, 8244, 6081>>, <<0454, 2937, 7562, 8628, 9441>>,
        <<1844, 6742, 6263, 0557, 2865>>, <<1210, 3477, 6722, 9108, 1763>>, <<0206, 0678, 3302, 7525, 3760>>,
        <<0237, 9906, 2573, 8388, 0660>>, <<0001, 3229, 8693, 6316, 7232>>, <<1210, 3947, 5800, 5128, 5184>>,
        <<0363, 1871, 6502, 6064, 0512>>, <<1837, 5880, 6228, 4700, 3104>>, <<1844, 6743, 7000, 4739, 6865>>,
        <<0749, 1684, 1775, 4999, 1903>>, <<1632, 8081, 9454, 9004, 3393>>, <<1160, 3770, 4610, 4647, 0701>>,
        <<1843, 3515, 2909, 7311, 0273>>
      >>,
      <<
        <<1843, 3515, 2909, 7311, 0273>>, <<0518, 5371, 2691, 6599, 7376>>, <<1487, 2856, 3158, 8244, 6081>>,
        <<0454, 2937, 7562, 8628, 9441>>, <<1844, 6742, 6263, 0557, 2865>>, <<1210, 3477, 6722, 9108, 1763>>,
        <<0206, 0678, 3302, 7525, 3760>>, <<0237, 9906, 2573, 8388, 0660>>, <<0001, 3229, 8693, 6316, 7232>>,
        <<1210, 3947, 5800, 5128, 5184>>, <<0363, 1871, 6502, 6064, 0512>>, <<1837, 5880, 6228, 4700, 3104>>,
        <<1844, 6743, 7000, 4739, 6865>>, <<0749, 1684, 1775, 4999, 1903>>, <<1632, 8081, 9454, 9004, 3393>>,
        <<1160, 3770, 4610, 4647, 0701>>
      >>,
      <<
        <<1160, 3770, 4610, 4647, 0701>>, <<1843, 3515, 2909, 7311, 0273>>, <<0518, 5371, 2691, 6599, 7376>>,
        <<1487, 2856, 3158, 8244, 6081>>, <<0454, 2937, 7562, 8628, 9441>>, <<1844, 6742, 6263, 0557, 2865>>,
        <<1210, 3477, 6722, 9108, 1763>>, <<0206, 0678, 3302, 7525, 3760>>, <<0237, 9906, 2573, 8388, 0660>>,
        <<0001, 3229, 8693, 6316, 7232>>, <<1210, 3947, 5800, 5128, 5184>>, <<0363, 1871, 6502, 6064, 0512>>,
        <<1837, 5880, 6228, 4700, 3104>>, <<1844, 6743, 7000, 4739, 6865>>, <<0749, 1684, 1775, 4999, 1903>>,
        <<1632, 8081, 9454, 9004, 3393>>
      >>,
      <<
        <<1632, 8081, 9454, 9004, 3393>>, <<1160, 3770, 4610, 4647, 0701>>, <<1843, 3515, 2909, 7311, 0273>>,
        <<0518, 5371, 2691, 6599, 7376>>, <<1487, 2856, 3158, 8244, 6081>>, <<0454, 2937, 7562, 8628, 9441>>,
        <<1844, 6742, 6263, 0557, 2865>>, <<1210, 3477, 6722, 9108, 1763>>, <<0206, 0678, 3302, 7525, 3760>>,
        <<0237, 9906, 2573, 8388, 0660>>, <<0001, 3229, 8693, 6316, 7232>>, <<1210, 3947, 5800, 5128, 5184>>,
        <<0363, 1871, 6502, 6064, 0512>>, <<1837, 5880, 6228, 4700, 3104>>, <<1844, 6743, 7000, 4739, 6865>>,
        <<0749, 1684, 1775, 4999, 1903>>
      >>,
      <<
        <<0749, 1684, 1775, 4999, 1903>>, <<1632, 8081, 9454, 9004, 3393>>, <<1160, 3770, 4610, 4647, 0701>>,
        <<1843, 3515, 2909, 7311, 0273>>, <<0518, 5371, 2691, 6599, 7376>>, <<1487, 2856, 3158, 8244, 6081>>,
        <<0454, 2937, 7562, 8628, 9441>>, <<1844, 6742, 6263, 0557, 2865>>, <<1210, 3477, 6722, 9108, 1763>>,
        <<0206, 0678, 3302, 7525, 3760>>, <<0237, 9906, 2573, 8388, 0660>>, <<0001, 3229, 8693, 6316, 7232>>,
        <<1210, 3947, 5800, 5128, 5184>>, <<0363, 1871, 6502, 6064, 0512>>, <<1837, 5880, 6228, 4700, 3104>>,
        <<1844, 6743, 7000, 4739, 6865>>
      >>,
      <<
        <<1844, 6743, 7000, 4739, 6865>>, <<0749, 1684, 1775, 4999, 1903>>, <<1632, 8081, 9454, 9004, 3393>>,
        <<1160, 3770, 4610, 4647, 0701>>, <<1843, 3515, 2909, 7311, 0273>>, <<0518, 5371, 2691, 6599, 7376>>,
        <<1487, 2856, 3158, 8244, 6081>>, <<0454, 2937, 7562, 8628, 9441>>, <<1844, 6742, 6263, 0557, 2865>>,
        <<1210, 3477, 6722, 9108, 1763>>, <<0206, 0678, 3302, 7525, 3760>>, <<0237, 9906, 2573, 8388, 0660>>,
        <<0001, 3229, 8693, 6316, 7232>>, <<1210, 3947, 5800, 5128, 5184>>, <<0363, 1871, 6502, 6064, 0512>>,
        <<1837, 5880, 6228, 4700, 3104>>
      >>,
      <<
        <<1837, 5880, 6228, 4700, 3104>>, <<1844, 6743, 7000, 4739, 6865>>, <<0749, 1684, 1775, 4999, 1903>>,
        <<1632, 8081, 9454, 9004, 3393>>, <<1160, 3770, 4610, 4647, 0701>>, <<1843, 3515, 2909, 7311, 0273>>,
        <<0518, 5371, 2691, 6599, 7376>>, <<1487, 2856, 3158, 8244, 6081>>, <<0454, 2937, 7562, 8628, 9441>>,
        <<1844, 6742, 6263, 0557, 2865>>, <<1210, 3477, 6722, 9108, 1763>>, <<0206, 0678, 3302, 7525, 3760>>,
        <<0237, 9906, 2573, 8388, 0660>>, <<0001, 3229, 8693, 6316, 7232>>, <<1210, 3947, 5800, 5128, 5184>>,
        <<0363, 1871, 6502, 6064, 0512>>
      >>,
      <<
        <<0363, 1871, 6502, 6064, 0512>>, <<1837, 5880, 6228, 4700, 3104>>, <<1844, 6743, 7000, 4739, 6865>>,
        <<0749, 1684, 1775, 4999, 1903>>, <<1632, 8081, 9454, 9004, 3393>>, <<1160, 3770, 4610, 4647, 0701>>,
        <<1843, 3515, 2909, 7311, 0273>>, <<0518, 5371, 2691, 6599, 7376>>, <<1487, 2856, 3158, 8244, 6081>>,
        <<0454, 2937, 7562, 8628, 9441>>, <<1844, 6742, 6263, 0557, 2865>>, <<1210, 3477, 6722, 9108, 1763>>,
        <<0206, 0678, 3302, 7525, 3760>>, <<0237, 9906, 2573, 8388, 0660>>, <<0001, 3229, 8693, 6316, 7232>>,
        <<1210, 3947, 5800, 5128, 5184>>
      >>,
      <<
        <<1210, 3947, 5800, 5128, 5184>>, <<0363, 1871, 6502, 6064, 0512>>, <<1837, 5880, 6228, 4700, 3104>>,
        <<1844, 6743, 7000, 4739, 6865>>, <<0749, 1684, 1775, 4999, 1903>>, <<1632, 8081, 9454, 9004, 3393>>,
        <<1160, 3770, 4610, 4647, 0701>>, <<1843, 3515, 2909, 7311, 0273>>, <<0518, 5371, 2691, 6599, 7376>>,
        <<1487, 2856, 3158, 8244, 6081>>, <<0454, 2937, 7562, 8628, 9441>>, <<1844, 6742, 6263, 0557, 2865>>,
        <<1210, 3477, 6722, 9108, 1763>>, <<0206, 0678, 3302, 7525, 3760>>, <<0237, 9906, 2573, 8388, 0660>>,
        <<0001, 3229, 8693, 6316, 7232>>
      >>,
      <<
        <<0001, 3229, 8693, 6316, 7232>>, <<1210, 3947, 5800, 5128, 5184>>, <<0363, 1871, 6502, 6064, 0512>>,
        <<1837, 5880, 6228, 4700, 3104>>, <<1844, 6743, 7000, 4739, 6865>>, <<0749, 1684, 1775, 4999, 1903>>,
        <<1632, 8081, 9454, 9004, 3393>>, <<1160, 3770, 4610, 4647, 0701>>, <<1843, 3515, 2909, 7311, 0273>>,
        <<0518, 5371, 2691, 6599, 7376>>, <<1487, 2856, 3158, 8244, 6081>>, <<0454, 2937, 7562, 8628, 9441>>,
        <<1844, 6742, 6263, 0557, 2865>>, <<1210, 3477, 6722, 9108, 1763>>, <<0206, 0678, 3302, 7525, 3760>>,
        <<0237, 9906, 2573, 8388, 0660>>
      >>,
      <<
        <<0237, 9906, 2573, 8388, 0660>>, <<0001, 3229, 8693, 6316, 7232>>, <<1210, 3947, 5800, 5128, 5184>>,
        <<0363, 1871, 6502, 6064, 0512>>, <<1837, 5880, 6228, 4700, 3104>>, <<1844, 6743, 7000, 4739, 6865>>,
        <<0749, 1684, 1775, 4999, 1903>>, <<1632, 8081, 9454, 9004, 3393>>, <<1160, 3770, 4610, 4647, 0701>>,
        <<1843, 3515, 2909, 7311, 0273>>, <<0518, 5371, 2691, 6599, 7376>>, <<1487, 2856, 3158, 8244, 6081>>,
        <<0454, 2937, 7562, 8628, 9441>>, <<1844, 6742, 6263, 0557, 2865>>, <<1210, 3477, 6722, 9108, 1763>>,
        <<0206, 0678, 3302, 7525, 3760>>
      >>,
      <<
        <<0206, 0678, 3302, 7525, 3760>>, <<0237, 9906, 2573, 8388, 0660>>, <<0001, 3229, 8693, 6316, 7232>>,
        <<1210, 3947, 5800, 5128, 5184>>, <<0363, 1871, 6502, 6064, 0512>>, <<1837, 5880, 6228, 4700, 3104>>,
        <<1844, 6743, 7000, 4739, 6865>>, <<0749, 1684, 1775, 4999, 1903>>, <<1632, 8081, 9454, 9004, 3393>>,
        <<1160, 3770, 4610, 4647, 0701>>, <<1843, 3515, 2909, 7311, 0273>>, <<0518, 5371, 2691, 6599, 7376>>,
        <<1487, 2856, 3158, 8244, 6081>>, <<0454, 2937, 7562, 8628, 9441>>, <<1844, 6742, 6263, 0557, 2865>>,
        <<1210, 3477, 6722, 9108, 1763>>
      >>,
      <<
        <<1210, 3477, 6722, 9108, 1763>>, <<0206, 0678, 3302, 7525, 3760>>, <<0237, 9906, 2573, 8388, 0660>>,
        <<0001, 3229, 8693, 6316, 7232>>, <<1210, 3947, 5800, 5128, 5184>>, <<0363, 1871, 6502, 6064, 0512>>,
        <<1837, 5880, 6228, 4700, 3104>>, <<1844, 6743, 7000, 4739, 6865>>, <<0749, 1684, 1775, 4999, 1903>>,
        <<1632, 8081, 9454, 9004, 3393>>, <<1160, 3770, 4610, 4647, 0701>>, <<1843, 3515, 2909, 7311, 0273>>,
        <<0518, 5371, 2691, 6599, 7376>>, <<1487, 2856, 3158, 8244, 6081>>, <<0454, 2937, 7562, 8628, 9441>>,
        <<1844, 6742, 6263, 0557, 2865>>
      >>
    >>

MDS_Tip4 == ElementsOf(MDS_Tip4_decimal)

\* tip4/mod.rs: ARK, the round constants, each entry the argument of BaseElement::new
ARK_Tip4_decimal ==
    <<
      <<
        <<0277, 3304, 5785, 9767, 5691>>, <<0657, 7486, 7929, 4983, 7289>>, <<0085, 2496, 4782, 9601, 8148>>,
        <<1627, 4170, 4130, 2822, 3467>>, <<1460, 5556, 2616, 5761, 3220>>, <<0615, 2165, 2064, 3835, 9141>>,
        <<1505, 7099, 0560, 1963, 6764>>, <<1351, 7296, 9121, 5268, 0108>>, <<1705, 4742, 6915, 3355, 6812>>,
        <<0634, 1951, 0116, 9562, 0811>>, <<1016, 9721, 5602, 0438, 5358>>, <<1146, 5675, 3665, 2277, 1128>>,
        <<0260, 3780, 0285, 8525, 1745>>, <<0728, 4707, 8113, 8651, 7733>>, <<1565, 7741, 7677, 2328, 6768>>,
        <<0751, 0473, 1970, 8444, 7883>>
      >>,
      <<
        <<0682, 4566, 8019, 0142, 1045>>, <<0324, 8632, 3767, 5314, 0628>>, <<1180, 2262, 1569, 2385, 6194>>,
        <<0202, 9950, 6435, 2767, 3097>>, <<1295, 5837, 7044, 3471, 1946>>, <<0302, 5867, 3049, 0314, 5181>>,
        <<0750, 9795, 6653, 9829, 6293>>, <<1668, 5304, 9522, 1896, 2269>>, <<0456, 7878, 3951, 5968, 4384>>,
        <<0197, 2986, 6995, 6274, 0861>>, <<1418, 5129, 5899, 0933, 8578>>, <<1197, 9170, 1820, 0912, 4666>>,
        <<1547, 6483, 5993, 1016, 8521>>, <<0527, 9342, 6186, 3721, 7663>>, <<0563, 4964, 0636, 4257, 6200>>,
        <<0148, 4231, 6092, 6370, 7727>>
      >>,
      <<
        <<1666, 7572, 5069, 6250, 7444>>, <<1563, 7294, 5862, 6407, 9072>>, <<1703, 2005, 6804, 8688, 3117>>,
        <<0418, 7237, 2334, 1901, 6829>>, <<0213, 9125, 1611, 1901, 4851>>, <<0268, 2540, 5475, 6522, 7553>>,
        <<0295, 2252, 9297, 8351, 8056>>, <<0591, 0024, 2565, 8224, 0379>>, <<0925, 7057, 5999, 2766, 7657>>,
        <<0351, 2513, 9960, 7092, 7994>>, <<0118, 3473, 9893, 2627, 2222>>, <<1101, 0640, 7975, 6740, 2430>>,
        <<0458, 5718, 7434, 0338, 7242>>, <<1271, 3202, 5266, 0390, 8035>>, <<1093, 4964, 2617, 1533, 0312>>,
        <<0736, 4737, 0237, 9047, 7939>>
      >>,
      <<
        <<1471, 8583, 0281, 4594, 4926>>, <<1583, 1238, 3595, 2551, 7579>>, <<0020, 5679, 0361, 4919, 2672>>,
        <<0341, 4264, 6199, 5494, 8141>>, <<0332, 8070, 5961, 5215, 4954>>, <<1840, 9310, 2078, 9397, 3078>>,
        <<1591, 0675, 9676, 7133, 7140>>, <<1476, 4179, 5457, 5009, 4344>>, <<1112, 0646, 4212, 1840, 0919>>,
        <<0086, 0545, 1100, 3917, 6289>>, <<1225, 0343, 7884, 0869, 5703>>, <<0597, 5459, 7233, 7314, 0194>>,
        <<1052, 3684, 4649, 1124, 6857>>, <<0694, 7239, 1817, 8472, 8254>>, <<0219, 8247, 7913, 9528, 1312>>,
        <<0759, 4475, 1510, 6674, 9733>>
      >>,
      <<
        <<1145, 1408, 2804, 6306, 3245>>, <<1379, 8728, 5847, 7338, 3083>>, <<0081, 8092, 3322, 7299, 4362>>,
        <<0780, 2557, 9659, 1099, 8345>>, <<1758, 9411, 3356, 9196, 9176>>, <<0970, 9960, 4866, 0904, 2571>>,
        <<1402, 6276, 2460, 6389, 5922>>, <<0465, 7968, 3053, 7564, 3740>>, <<1605, 5925, 9112, 4559, 9980>>,
        <<1715, 2524, 0339, 6319, 0290>>, <<0334, 2740, 2666, 9112, 7965>>, <<1135, 8178, 8253, 5114, 8260>>,
        <<0586, 2165, 9719, 5409, 9526>>, <<1223, 5899, 1785, 1325, 5067>>, <<0292, 7725, 8756, 3981, 7919>>,
        <<1178, 4104, 1992, 4192, 5722>>
      >>
    >>

ARK_Tip4 == ElementsOf(ARK_Tip4_decimal)

\* tip4_prime/mod.rs: LOOKUP_TABLE, the S-box lookup table
LOOKUP_TABLE_Tip4p ==
    <<
      0, 7, 26, 63, 124, 215, 85, 254, 214, 228, 45, 185, 140, 173, 33, 240, 29, 177, 176, 32,
      8, 110, 87, 202, 204, 99, 150, 106, 230, 14, 235, 128, 213, 239, 212, 138, 23, 130, 208,
      6, 44, 71, 93, 116, 146, 189, 251, 81, 199, 97, 38, 28, 73, 179, 95, 84, 152, 48, 35, 119,
      49, 88, 242, 3, 148, 169, 72, 120, 62, 161, 166, 83, 175, 191, 137, 19, 100, 129, 112, 55,
      221, 102, 218, 61, 151, 237, 68, 164, 17, 147, 46, 234, 203, 216, 22, 141, 65, 57, 123,
      12, 244, 54, 219, 231, 96, 77, 180, 154, 5, 253, 133, 165, 98, 195, 205, 134, 245, 30, 9,
      188, 59, 142, 186, 197, 181, 144, 92, 31, 224, 163, 111, 74, 58, 69, 113, 196, 67, 246,
      225, 10, 121, 50, 60, 157, 90, 122, 2, 250, 101, 75, 178, 159, 24, 36, 201, 11, 243, 132,
      198, 190, 114, 233, 39, 52, 21, 209, 108, 238, 91, 187, 18, 104, 194, 37, 153, 34, 200,
      143, 126, 155, 236, 118, 64, 80, 172, 89, 94, 193, 135, 183, 86, 107, 252, 13, 167, 206,
      136, 220, 207, 103, 171, 160, 76, 182, 227, 217, 158, 56, 174, 4, 66, 109, 139, 162, 184,
      211, 249, 47, 125, 232, 117, 43, 16, 42, 127, 20, 241, 25, 149, 105, 156, 51, 53, 168,
      145, 247, 223, 79, 78, 226, 15, 222, 82, 115, 70, 210, 27, 41, 1, 170, 40, 131, 192, 229,
      248, 255
    >>

\* tip4_prime/mod.rs: MDS, the MDS matrix, each entry the argument of BaseElement::new
MDS_Tip4p_decimal ==
    <<
      <<
        <<0000, 0000, 0000, 0000, 0007>>, <<0000, 0000, 0000, 0000, 0023>>, <<0000, 0000, 0000, 0000, 0008>>,
        <<0000, 0000, 0000, 0000, 0026>>, <<0000, 0000, 0000, 0000, 0013>>, <<0000, 0000, 0000, 0000, 0010>>,
        <<0000, 0000, 0000, 0000, 0009>>, <<0000, 0000, 0000, 0000, 0007>>, <<0000, 0000, 0000, 0000, 0006>>,
        <<0000, 0000, 0000, 0000, 0022>>, <<0000, 0000, 0000, 0000, 0021>>, <<0000, 0000, 0000, 0000, 0008>>
      >>,
      <<
        <<0000, 0000, 0000, 0000, 0008>>, <<0000, 0000, 0000, 0000, 0007>>, <<0000, 0000, 0000, 0000, 0023>>,
        <<0000, 0000, 0000, 0000, 0008>>, <<0000, 0000, 0000, 0000, 0026>>, <<0000, 0000, 0000, 0000, 0013>>,
        <<0000, 0000, 0000, 0000, 0010>>, <<0000, 0000, 0000, 0000, 0009>>, <<0000, 0000, 0000, 0000, 0007>>,
        <<0000, 0000, 0000, 0000, 0006>>, <<0000, 0000, 0000, 0000, 0022>>, <<0000, 0000, 0000, 0000, 0021>>
      >>,
      <<
        <<0000, 0000, 0000, 0000, 0021>>, <<0000, 0000, 0000, 0000, 0008>>, <<0000, 0000, 0000, 0000, 0007>>,
        <<0000, 0000, 0000, 0000, 0023>>, <<0000, 0000, 0000, 0000, 0008>>, <<0000, 0000, 0000, 0000, 0026>>,
        <<0000, 0000, 0000, 0000, 0013>>, <<0000, 0000, 0000, 0000, 0010>>, <<0000, 0000, 0000, 0000, 0009>>,
        <<0000, 0000, 0000, 0000, 0007>>, <<0000, 0000, 0000, 0000, 0006>>, <<0000, 0000, 0000, 0000, 0022>>
      >>,
      <<
        <<0000, 0000, 0000, 0000, 0022>>, <<0000, 0000, 0000, 0000, 0021>>, <<0000, 0000, 0000, 0000, 0008>>,
        <<0000, 0000, 0000, 0000, 0007>>, <<0000, 0000, 0000, 0000, 0023>>, <<0000, 0000, 0000, 0000, 0008>>,
        <<0000, 0000, 0000, 0000, 0026>>, <<0000, 0000, 0000, 0000, 0013>>, <<0000, 0000, 0000, 0000, 0010>>,
        <<0000, 0000, 0000, 0000, 0009>>, <<0000, 0000, 0000, 0000, 0007>>, <<0000, 0000, 0000, 0000, 0006>>
      >>,
      <<
        <<0000, 0000, 0000, 0000, 0006>>, <<0000, 0000, 0000, 0000, 0022>>, <<0000, 0000, 0000, 0000, 0021>>,
        <<0000, 0000, 0000, 0000, 0008>>, <<0000, 0000, 0000, 0000, 0007>>, <<0000, 0000, 0000, 0000, 0023>>,
        <<0000, 0000, 0000, 0000, 0008>>, <<0000, 0000, 0000, 0000, 0026>>, <<0000, 0000, 0000, 0000, 0013>>,
        <<0000, 0000, 0000, 0000, 0010>>, <<0000, 0000, 0000, 0000, 0009>>, <<0000, 0000, 0000, 0000, 0007>>
      >>,
      <<
        <<0000, 0000, 0000, 0000, 0007>>, <<0000, 0000, 0000, 0000, 0006>>, <<0000, 0000, 0000, 0000, 0022>>,
        <<0000, 0000, 0000, 0000, 0021>>, <<0000, 0000, 0000, 0000, 0008>>, <<0000, 0000, 0000, 0000, 0007>>,
        <<0000, 0000, 0000, 0000, 0023>>, <<0000, 0000, 0000, 0000, 0008>>, <<0000, 0000, 0000, 0000, 0026>>,
        <<0000, 0000, 0000, 0000, 0013>>, <<0000, 0000, 0000, 0000, 0010>>, <<0000, 0000, 0000, 0000, 0009>>
      >>,
      <<
        <<0000, 0000, 0000, 0000, 0009>>, <<0000, 0000, 0000, 0000, 0007>>, <<0000, 0000, 0000, 0000, 0006>>,
        <<0000, 0000, 0000, 0000, 0022>>, <<0000, 0000, 0000, 0000, 0021>>, <<0000, 0000, 0000, 0000, 0008>>,
        <<0000, 0000, 0000, 0000, 0007>>, <<0000, 0000, 0000, 0000, 0023>>, <<0000, 0000, 0000, 0000, 0008>>,
        <<0000, 0000, 0000, 0000, 0026>>, <<0000, 0000, 0000, 0000, 0013>>, <<0000, 0000, 0000, 0000, 0010>>
      >>,
      <<
        <<0000, 0000, 0000, 0000, 0010>>, <<0000, 0000, 0000, 0000, 0009>>, <<0000, 0000, 0000, 0000, 0007>>,
        <<0000, 0000, 0000, 0000, 0006>>, <<0000, 0000, 0000, 0000, 0022>>, <<0000, 0000, 0000, 0000, 0021>>,
        <<0000, 0000, 0000, 0000, 0008>>, <<0000, 0000, 0000, 0000, 0007>>, <<0000, 0000, 0000, 0000, 0023>>,
        <<0000, 0000, 0000, 0000, 0008>>, <<0000, 0000, 0000, 0000, 0026>>, <<0000, 0000, 0000, 0000, 0013>>
      >>,
      <<
        <<0000, 0000, 0000, 0000, 0013>>, <<0000, 0000, 0000, 0000, 0010>>, <<0000, 0000, 0000, 0000, 0009>>,
        <<0000, 0000, 0000, 0000, 0007>>, <<0000, 0000, 0000, 0000, 0006>>, <<0000, 0000, 0000, 0000, 0022>>,
        <<0000, 0000, 0000, 0000, 0021>>, <<0000, 0000, 0000, 0000, 0008>>, <<0000, 0000, 0000, 0000, 0007>>,
        <<0000, 0000, 0000, 0000, 0023>>, <<0000, 0000, 0000, 0000, 0008>>, <<0000, 0000, 0000, 0000, 0026>>
      >>,
      <<
        <<0000, 0000, 0000, 0000, 0026>>, <<0000, 0000, 0000, 0000, 0013>>, <<0000, 0000, 0000, 0000, 0010>>,
        <<0000, 0000, 0000, 0000, 0009>>, <<0000, 0000, 0000, 0000, 0007>>, <<0000, 0000, 0000, 0000, 0006>>,
        <<0000, 0000, 0000, 0000, 0022>>, <<0000, 0000, 0000, 0000, 0021>>, <<0000, 0000, 0000, 0000, 0008>>,
        <<0000, 0000, 0000, 0000, 0007>>, <<0000, 0000, 0000, 0000, 0023>>, <<0000, 0000, 0000, 0000, 0008>>
      >>,
      <<
        <<0000, 0000, 0000, 0000, 0008>>, <<0000, 0000, 0000, 0000, 0026>>, <<0000, 0000, 0000, 0000, 0013>>,
        <<0000, 0000, 0000, 0000, 0010>>, <<0000, 0000, 0000, 0000, 0009>>, <<0000, 0000, 0000, 0000, 0007>>,
        <<0000, 0000, 0000, 0000, 0006>>, <<0000, 0000, 0000, 0000, 0022>>, <<0000, 0000, 0000, 0000, 0021>>,
        <<0000, 0000, 0000, 0000, 0008>>, <<0000, 0000, 0000, 0000, 0007>>, <<0000, 0000, 0000, 0000, 0023>>
      >>,
      <<
        <<0000, 0000, 0000, 0000, 0023>>, <<0000, 0000, 0000, 0000, 0008>>, <<0000, 0000, 0000, 0000, 0026>>,
        <<0000, 0000, 0000, 0000, 0013>>, <<0000, 0000, 0000, 0000, 0010>>, <<0000, 0000, 0000, 0000, 0009>>,
        <<0000, 0000, 0000, 0000, 0007>>, <<0000, 0000, 0000, 0000, 0006>>, <<0000, 0000, 0000, 0000, 0022>>,
        <<0000, 0000, 0000, 0000, 0021>>, <<0000, 0000, 0000, 0000, 0008>>, <<0000, 0000, 0000, 0000, 0007>>
      >>
    >>

MDS_Tip4p == ElementsOf(MDS_Tip4p_decimal)

\* tip4_prime/mod.rs: ARK, the round constants, each entry the argument of BaseElement::new
ARK_Tip4p_decimal ==
    <<
      <<
        <<0638, 9859, 8293, 7415, 9539>>, <<1722, 9380, 7057, 5692, 5792>>, <<0168, 5504, 0657, 6836, 0085>>,
        <<1149, 5601, 3896, 0296, 4927>>, <<1459, 0499, 3328, 8296, 7787>>, <<0102, 5546, 9748, 3627, 0924>>,
        <<0653, 4388, 3616, 4118, 9904>>, <<0008, 3528, 3291, 9532, 2609>>, <<1682, 5958, 8309, 2059, 9305>>,
        <<1436, 7535, 9135, 3154, 1706>>, <<0937, 3882, 1131, 6935, 2939>>, <<1520, 6069, 3888, 1508, 5038>>
      >>,
      <<
        <<1173, 7921, 2048, 9551, 5252>>, <<1667, 5938, 8098, 1410, 9201>>, <<0308, 1949, 1794, 7087, 3665>>,
        <<1440, 8516, 9986, 0083, 1324>>, <<0173, 4666, 6910, 4105, 0162>>, <<0696, 5669, 3717, 1014, 5373>>,
        <<0262, 7545, 0384, 9671, 1157>>, <<0413, 1567, 2333, 5531, 1863>>, <<0666, 3606, 8542, 3621, 4944>>,
        <<0435, 6348, 8180, 7234, 3221>>, <<1697, 7499, 8754, 8747, 6107>>, <<0713, 3528, 0052, 1046, 9376>>
      >>,
      <<
        <<0657, 6072, 1009, 9565, 4613>>, <<1036, 5773, 2855, 1751, 0429>>, <<0509, 9169, 9110, 4666, 3151>>,
        <<0820, 4666, 5358, 9359, 2250>>, <<0819, 7747, 9204, 3437, 0952>>, <<1405, 5144, 3237, 0510, 3704>>,
        <<0382, 3557, 9581, 8361, 3205>>, <<1360, 5446, 8158, 9385, 6691>>, <<0573, 5413, 6885, 1293, 4979>>,
        <<0685, 1805, 5806, 1283, 0374>>, <<1582, 6549, 7112, 9083, 8538>>, <<1268, 5129, 7802, 5189, 6487>>
      >>,
      <<
        <<1463, 0567, 1769, 4583, 8998>>, <<1091, 4381, 5497, 4638, 7617>>, <<0742, 1170, 0534, 0425, 5007>>,
        <<0072, 9729, 0489, 8490, 8966>>, <<1403, 4826, 3571, 0048, 9727>>, <<0183, 8990, 0032, 7106, 2491>>,
        <<0189, 8220, 4719, 8718, 5721>>, <<1654, 5038, 6895, 5532, 2876>>, <<0809, 4685, 0714, 3784, 3378>>,
        <<1285, 0344, 5071, 1601, 8299>>, <<1231, 2176, 2618, 6665, 9209>>, <<1595, 1038, 0484, 1029, 9964>>
      >>,
      <<
        <<1027, 2996, 0197, 6078, 1151>>, <<1560, 4072, 7137, 1275, 8006>>, <<1604, 1565, 7546, 4705, 2886>>,
        <<1405, 0558, 2241, 7194, 6805>>, <<0779, 7167, 8148, 7190, 3221>>, <<1470, 3987, 6056, 7299, 7265>>,
        <<0048, 9387, 0443, 4791, 8799>>, <<1652, 5276, 0815, 9873, 5217>>, <<1829, 0527, 9034, 4140, 5997>>,
        <<1409, 1853, 1420, 5442, 7371>>, <<1001, 3792, 4489, 7769, 5701>>, <<0557, 0882, 4877, 5375, 8060>>
      >>
    >>

ARK_Tip4p == ElementsOf(ARK_Tip4p_decimal)

\* tip5/mod.rs: LOOKUP_TABLE, the S-box lookup table
LOOKUP_TABLE_Tip5 ==
    <<
      0, 7, 26, 63, 124, 215, 85, 254, 214, 228, 45, 185, 140, 173, 33, 240, 29, 177, 176, 32,
      8, 110, 87, 202, 204, 99, 150, 106, 230, 14, 235, 128, 213, 239, 212, 138, 23, 130, 208,
      6, 44, 71, 93, 116, 146, 189, 251, 81, 199, 97, 38, 28, 73, 179, 95, 84, 152, 48, 35, 119,
      49, 88, 242, 3, 148, 169, 72, 120, 62, 161, 166, 83, 175, 191, 137, 19, 100, 129, 112, 55,
      221, 102, 218, 61, 151, 237, 68, 164, 17, 147, 46, 234, 203, 216, 22, 141, 65, 57, 123,
      12, 244, 54, 219, 231, 96, 77, 180, 154, 5, 253, 133, 165, 98, 195, 205, 134, 245, 30, 9,
      188, 59, 142, 186, 197, 181, 144, 92, 31, 224, 163, 111, 74, 58, 69, 113, 196, 67, 246,
      225, 10, 121, 50, 60, 157, 90, 122, 2, 250, 101, 75, 178, 159, 24, 36, 201, 11, 243, 132,
      198, 190, 114, 233, 39, 52, 21, 209, 108, 238, 91, 187, 18, 104, 194, 37, 153, 34, 200,
      143, 126, 155, 236, 118, 64, 80, 172, 89, 94, 193, 135, 183, 86, 107, 252, 13, 167, 206,
      136, 220, 207, 103, 171, 160, 76, 182, 227, 217, 158, 56, 174, 4, 66, 109, 139, 162, 184,
      211, 249, 47, 125, 232, 117, 43, 16, 42, 127, 20, 241, 25, 149, 105, 156, 51, 53, 168,
      145, 247, 223, 79, 78, 226, 15, 222, 82, 115, 70, 210, 27, 41, 1, 170, 40, 131, 192, 229,
      248, 255
    >>

\* tip5/mod.rs: MDS, the MDS matrix, each entry the argument of BaseElement::new
MDS_Tip5_decimal ==
    <<
      <<
        <<1844, 6742, 6263, 0557, 2865>>, <<1210, 3477, 6722, 9108, 1763>>, <<0206, 0678, 3302, 7525, 3760>>,
        <<0237, 9906, 2573, 8388, 0660>>, <<0001, 3229, 8693, 6316, 7232>>, <<1210, 3947, 5800, 5128, 5184>>,
        <<0363, 1871, 6502, 6064, 0512>>, <<1837, 5880, 6228, 4700, 3104>>, <<1844, 6743, 7000, 4739, 6865>>,
        <<0749, 1684, 1775, 4999, 1903>>, <<1632, 8081, 9454, 9004, 3393>>, <<1160, 3770, 4610, 4647, 0701>>,
        <<1843, 3515, 2909, 7311, 0273>>, <<0518, 5371, 2691, 6599, 7376>>, <<1487, 2856, 3158, 8244, 6081>>,
        <<0454, 2937, 7562, 8628, 9441>>
      >>,
      <<
        <<0454, 2937, 7562, 8628, 9441>>, <<1844, 6742, 6263, 0557, 2865>>, <<1210, 3477, 6722, 9108, 1763>>,
        <<0206, 0678, 3302, 7525, 3760>>, <<0237, 9906, 2573, 8388, 0660>>, <<0001, 3229, 8693, 6316, 7232>>,
        <<1210, 3947, 5800, 5128, 5184>>, <<0363, 1871, 6502, 6064, 0512>>, <<1837, 5880, 6228, 4700, 3104>>,
        <<1844, 6743, 7000, 4739, 6865>>, <<0749, 1684, 1775, 4999, 1903>>, <<1632, 8081, 9454, 9004, 3393>>,
        <<1160, 3770, 4610, 4647, 0701>>, <<1843, 3515, 2909, 7311, 0273>>, <<0518, 5371, 2691, 6599, 7376>>,
        <<1487, 2856, 3158, 8244, 6081>>
      >>,
      <<
        <<1487, 2856, 3158, 8244, 6081>>, <<0454, 2937, 7562, 8628, 9441>>, <<1844, 6742, 6263, 0557, 2865>>,
        <<1210, 3477, 6722, 9108, 1763>>, <<0206, 0678, 3302, 7525, 3760>>, <<0237, 9906, 2573, 8388, 0660>>,
        <<0001, 3229, 8693, 6316, 7232>>, <<1210, 3947, 5800, 5128, 5184>>, <<0363, 1871, 6502, 6064, 0512>>,
        <<1837, 5880, 6228, 4700, 3104>>, <<1844, 6743, 7000, 4739, 6865>>, <<0749, 1684, 1775, 4999, 1903>>,
        <<1632, 8081, 9454, 9004, 3393>>, <<1160, 3770, 4610, 4647, 0701>>, <<1843, 3515, 2909, 7311, 0273>>,
        <<0518, 5371, 2691, 6599, 7376>>
      >>,
      <<
        <<0518, 5371, 2691, 6599, 7376>>, <<1487, 2856, 3158, 8244, 6081>>, <<0454, 2937, 7562, 8628, 9441>>,
        <<1844, 6742, 6263, 0557, 2865>>, <<1210, 3477, 6722, 9108, 1763>>, <<0206, 0678, 3302, 7525, 3760>>,
        <<0237, 9906, 2573, 8388, 0660>>, <<0001, 3229, 8693, 6316, 7232>>, <<1210, 3947, 5800, 5128, 5184>>,
        <<0363, 1871, 6502, 6064, 0512>>, <<1837, 5880, 6228, 4700, 3104>>, <<1844, 6743, 7000, 4739, 6865>>,
        <<0749, 1684, 1775, 4999, 1903>>, <<1632, 8081, 9454, 9004, 3393>>, <<1160, 3770, 4610, 4647, 0701>>,
        <<1843, 3515, 2909, 7311, 0273>>
      >>,
      <<
        <<1843, 3515, 2909, 7311, 0273>>, <<0518, 5371, 2691, 6599, 7376>>, <<1487, 2856, 3158, 8244, 6081>>,
        <<0454, 2937, 7562, 8628, 9441>>, <<1844, 6742, 6263, 0557, 2865>>, <<1210, 3477, 6722, 9108, 1763>>,
        <<0206, 0678, 3302, 7525, 3760>>, <<0237, 9906, 2573, 8388, 0660>>, <<0001, 3229, 8693, 6316, 7232>>,
        <<1210, 3947, 5800, 5128, 5184>>, <<0363, 1871, 6502, 6064, 0512>>, <<1837, 5880, 6228, 4700, 3104>>,
        <<1844, 6743, 7000, 4739, 6865>>, <<0749, 1684, 1775, 4999, 1903>>, <<1632, 8081, 9454, 9004, 3393>>,
        <<1160, 3770, 4610, 4647, 0701>>
      >>,
      <<
        <<1160, 3770, 4610, 4647, 0701>>, <<1843, 3515, 2909, 7311, 0273>>, <<0518, 5371, 2691, 6599, 7376>>,
        <<1487, 2856, 3158, 8244, 6081>>, <<0454, 2937, 7562, 8628, 9441>>, <<1844, 6742, 6263, 0557, 2865>>,
        <<1210, 3477, 6722, 9108, 1763>>, <<0206, 0678, 3302, 7525, 3760>>, <<0237, 9906, 2573, 8388, 0660>>,
        <<0001, 3229, 8693, 6316, 7232>>, <<1210, 3947, 5800, 5128, 5184>>, <<0363, 1871, 6502, 6064, 0512>>,
        <<1837, 5880, 6228, 4700, 3104>>, <<1844, 6743, 7000, 4739, 6865>>, <<0749, 1684, 1775, 4999, 1903>>,
        <<1632, 8081, 9454, 9004, 3393>>
      >>,
      <<
        <<1632, 8081, 9454, 9004, 3393>>, <<1160, 3770, 4610, 4647, 0701>>, <<1843, 3515, 2909, 7311, 0273>>,
        <<0518, 5371, 2691, 6599, 7376>>, <<1487, 2856, 3158, 8244, 6081>>, <<0454, 2937, 7562, 8628, 9441>>,
        <<1844, 6742, 6263, 0557, 2865>>, <<1210, 3477, 6722, 9108, 1763>>, <<0206, 0678, 3302, 7525, 3760>>,
        <<0237, 9906, 2573, 8388, 0660>>, <<0001, 3229, 8693, 6316, 7232>>, <<1210, 3947, 5800, 5128, 5184>>,
        <<0363, 1871, 6502, 6064, 0512>>, <<1837, 5880, 6228, 4700, 3104>>, <<1844, 6743, 7000, 4739, 6865>>,
        <<0749, 1684, 1775, 4999, 1903>>
      >>,
      <<
        <<0749, 1684, 1775, 4999, 1903>>, <<1632, 8081, 9454, 9004, 3393>>, <<1160, 3770, 4610, 4647, 0701>>,
        <<1843, 3515, 2909, 7311, 0273>>, <<0518, 5371, 2691, 6599, 7376>>, <<1487, 2856, 3158, 8244, 6081>>,
        <<0454, 2937, 7562, 8628, 9441>>, <<1844, 6742, 6263, 0557, 2865>>, <<1210, 3477, 6722, 9108, 1763>>,
        <<0206, 0678, 3302, 7525, 3760>>, <<0237, 9906, 2573, 8388, 0660>>, <<0001, 3229, 8693, 6316, 7232>>,
        <<1210, 3947, 5800, 5128, 5184>>, <<0363, 1871, 6502, 6064, 0512>>, <<1837, 5880, 6228, 4700, 3104>>,
        <<1844, 6743, 7000, 4739, 6865>>
      >>,
      <<
        <<1844, 6743, 7000, 4739, 6865>>, <<0749, 1684, 1775, 4999, 1903>>, <<1632, 8081, 9454, 9004, 3393>>,
        <<1160, 3770, 4610, 4647, 0701>>, <<1843, 3515, 2909, 7311, 0273>>, <<0518, 5371, 2691, 6599, 7376>>,
        <<1487, 2856, 3158, 8244, 6081>>, <<0454, 2937, 7562, 8628, 9441>>, <<1844, 6742, 6263, 0557, 2865>>,
        <<1210, 3477, 6722, 9108, 1763>>, <<0206, 0678, 3302, 7525, 3760>>, <<0237, 9906, 2573, 8388, 0660>>,
        <<0001, 3229, 8693, 6316, 7232>>, <<1210, 3947, 5800, 5128, 5184>>, <<0363, 1871, 6502, 6064, 0512>>,
        <<1837, 5880, 6228, 4700, 3104>>
      >>,
      <<
        <<1837, 5880, 6228, 4700, 3104>>, <<1844, 6743, 7000, 4739, 6865>>, <<0749, 1684, 1775, 4999, 1903>>,
        <<1632, 8081, 9454, 9004, 3393>>, <<1160, 3770, 4610, 4647, 0701>>, <<1843, 3515, 2909, 7311, 0273>>,
        <<0518, 5371, 2691, 6599, 7376>>, <<1487, 2856, 3158, 8244, 6081>>, <<0454, 2937, 7562, 8628, 9441>>,
        <<1844, 6742, 6263, 0557, 2865>>, <<1210, 3477, 6722, 9108, 1763>>, <<0206, 0678, 3302, 7525, 3760>>,
        <<0237, 9906, 2573, 8388, 0660>>, <<0001, 3229, 8693, 6316, 7232>>, <<1210, 3947, 5800, 5128, 5184>>,
        <<0363, 1871, 6502, 6064, 0512>>
      >>,
      <<
        <<0363, 1871, 6502, 6064, 0512>>, <<1837, 5880, 6228, 4700, 3104>>, <<1844, 6743, 7000, 4739, 6865>>,
        <<0749, 1684, 1775, 4999, 1903>>, <<1632, 8081, 9454, 9004, 3393>>, <<1160, 3770, 4610, 4647, 0701>>,
        <<1843, 3515, 2909, 7311, 0273>>, <<0518, 5371, 2691, 6599, 7376>>, <<1487, 2856, 3158, 8244, 6081>>,
        <<0454, 2937, 7562, 8628, 9441>>, <<1844, 6742, 6263, 0557, 2865>>, <<1210, 3477, 6722, 9108, 1763>>,
        <<0206, 0678, 3302, 7525, 3760>>, <<0237, 9906, 2573, 8388, 0660>>, <<0001, 3229, 8693, 6316, 7232>>,
        <<1210, 3947, 5800, 5128, 5184>>
      >>,
      <<
        <<1210, 3947, 5800, 5128, 5184>>, <<0363, 1871, 6502, 6064, 0512>>, <<1837, 5880, 6228, 4700, 3104>>,
        <<1844, 6743, 7000, 4739, 6865>>, <<0749, 1684, 1775, 4999, 1903>>, <<1632, 8081, 9454, 9004, 3393>>,
        <<1160, 3770, 4610, 4647, 0701>>, <<1843, 3515, 2909, 7311, 0273>>, <<0518, 5371, 2691, 6599, 7376>>,
        <<1487, 2856, 3158, 8244, 6081>>, <<0454, 2937, 7562, 8628, 9441>>, <<1844, 6742, 6263, 0557, 2865>>,
        <<1210, 3477, 6722, 9108, 1763>>, <<0206, 0678, 3302, 7525, 3760>>, <<0237, 9906, 2573, 8388, 0660>>,
        <<0001, 3229, 8693, 6316, 7232>>
      >>,
      <<
        <<0001, 3229, 8693, 6316, 7232>>, <<1210, 3947, 5800, 5128, 5184>>, <<0363, 1871, 6502, 6064, 0512>>,
        <<1837, 5880, 6228, 4700, 3104>>, <<1844, 6743, 7000, 4739, 6865>>, <<0749, 1684, 1775, 4999, 1903>>,
        <<1632, 8081, 9454, 9004, 3393>>, <<1160, 3770, 4610, 4647, 0701>>, <<1843, 3515, 2909, 7311, 0273>>,
        <<0518, 5371, 2691, 6599, 7376>>, <<1487, 2856, 3158, 8244, 6081>>, <<0454, 2937, 7562, 8628, 9441>>,
        <<1844, 6742, 6263, 0557, 2865>>, <<1210, 3477, 6722, 9108, 1763>>, <<0206, 0678, 3302, 7525, 3760>>,
        <<0237, 9906, 2573, 8388, 0660>>
      >>,
      <<
        <<0237, 9906, 2573, 8388, 0660>>, <<0001, 3229, 8693, 6316, 7232>>, <<1210, 3947, 5800, 5128, 5184>>,
        <<0363, 1871, 6502, 6064, 0512>>, <<1837, 5880, 6228, 4700, 3104>>, <<1844, 6743, 7000, 4739, 6865>>,
        <<0749, 1684, 1775, 4999, 1903>>, <<1632, 8081, 9454, 9004, 3393>>, <<1160, 3770, 4610, 4647, 0701>>,
        <<1843, 3515, 2909, 7311, 0273>>, <<0518, 5371, 2691, 6599, 7376>>, <<1487, 2856, 3158, 8244, 6081>>,
        <<0454, 2937, 7562, 8628, 9441>>, <<1844, 6742, 6263, 0557, 2865>>, <<1210, 3477, 6722, 9108, 1763>>,
        <<0206, 0678, 3302, 7525, 3760>>
      >>,
      <<
        <<0206, 0678, 3302, 7525, 3760>>, <<0237, 9906, 2573, 8388, 0660>>, <<0001, 3229, 8693, 6316, 7232>>,
        <<1210, 3947, 5800, 5128, 5184>>, <<0363, 1871, 6502, 6064, 0512>>, <<1837, 5880, 6228, 4700, 3104>>,
        <<1844, 6743, 7000, 4739, 6865>>, <<0749, 1684, 1775, 4999, 1903>>, <<1632, 8081, 9454, 9004, 3393>>,
        <<1160, 3770, 4610, 4647, 0701>>, <<1843, 3515, 2909, 7311, 0273>>, <<0518, 5371, 2691, 6599, 7376>>,
        <<1487, 2856, 3158, 8244, 6081>>, <<0454, 2937, 7562, 8628, 9441>>, <<1844, 6742, 6263, 0557, 2865>>,
        <<1210, 3477, 6722, 9108, 1763>>
      >>,
      <<
        <<1210, 3477, 6722, 9108, 1763>>, <<0206, 0678, 3302, 7525, 3760>>, <<0237, 9906, 2573, 8388, 0660>>,
        <<0001, 3229, 8693, 6316, 7232>>, <<1210, 3947, 5800, 5128, 5184>>, <<0363, 1871, 6502, 6064, 0512>>,
        <<1837, 5880, 6228, 4700, 3104>>, <<1844, 6743, 7000, 4739, 6865>>, <<0749, 1684, 1775, 4999, 1903>>,
        <<1632, 8081, 9454, 9004, 3393>>, <<1160, 3770, 4610, 4647, 0701>>, <<1843, 3515, 2909, 7311, 0273>>,
        <<0518, 5371, 2691, 6599, 7376>>, <<1487, 2856, 3158, 8244, 6081>>, <<0454, 2937, 7562, 8628, 9441>>,
        <<1844, 6742, 6263, 0557, 2865>>
      >>
    >>

MDS_Tip5 == ElementsOf(MDS_Tip5_decimal)

\* tip5/mod.rs: ARK, the round constants, each entry the argument of BaseElement::new
ARK_Tip5_decimal ==
    <<
      <<
        <<1363, 0775, 3033, 5545, 7758>>, <<1689, 6927, 5740, 9323, 3874>>, <<1037, 9449, 6536, 5013, 0495>>,
        <<0196, 5408, 3644, 1309, 3495>>, <<1523, 2538, 9470, 9018, 5111>>, <<1589, 2634, 3980, 9174, 7074>>,
        <<0398, 9134, 1400, 2487, 1768>>, <<0285, 1411, 9121, 2773, 0865>>, <<0870, 9136, 4392, 9375, 8776>>,
        <<0369, 4858, 6696, 6293, 9734>>, <<1269, 2440, 2443, 1532, 7141>>, <<1072, 2316, 1663, 5807, 6749>>,
        <<1274, 5429, 3204, 4163, 9448>>, <<1793, 2424, 2237, 2399, 0421>>, <<0755, 8102, 5348, 6793, 7463>>,
        <<1555, 1047, 4358, 5553, 1404>>
      >>,
      <<
        <<1753, 2528, 6485, 7938, 4106>>, <<0521, 6785, 8504, 2267, 9555>>, <<1541, 8071, 3320, 9503, 1847>>,
        <<1192, 1929, 7629, 5514, 6258>>, <<0973, 8718, 9936, 7701, 9874>>, <<0346, 4580, 3994, 3299, 7147>>,
        <<1340, 8434, 7691, 1716, 4050>>, <<0026, 4428, 2186, 4961, 6431>>, <<0443, 6247, 8690, 0808, 1381>>,
        <<0406, 3129, 4358, 5080, 4221>>, <<0286, 5073, 1557, 4112, 0117>>, <<0574, 9834, 4376, 0976, 5994>>,
        <<0680, 4196, 7641, 8940, 8435>>, <<1706, 0469, 2012, 9298, 8508>>, <<0947, 5383, 5567, 3720, 6708>>,
        <<1287, 6344, 0856, 1146, 5020>>
      >>,
      <<
        <<1383, 5756, 1993, 6826, 9249>>, <<0164, 8753, 4559, 4434, 4172>>, <<0983, 6124, 4735, 6925, 8483>>,
        <<1286, 7641, 5971, 0793, 2229>>, <<1125, 4152, 6366, 9296, 0595>>, <<1655, 0832, 7371, 3986, 1108>>,
        <<1186, 1573, 9704, 8073, 3262>>, <<0125, 6660, 4735, 8867, 3495>>, <<1387, 9506, 0006, 7645, 5136>>,
        <<1056, 4103, 8426, 8235, 8721>>, <<1614, 2842, 5247, 9639, 7521>>, <<0328, 7098, 5919, 4863, 0584>>,
        <<0068, 5911, 4710, 6128, 4805>>, <<0528, 5298, 7769, 1887, 8023>>, <<1831, 0953, 5717, 6804, 7354>>,
        <<0314, 2266, 3506, 3000, 2035>>
      >>,
      <<
        <<0054, 9990, 7249, 3366, 3297>>, <<0490, 1984, 8461, 1807, 7401>>, <<1145, 8643, 0336, 9677, 5769>>,
        <<0870, 6785, 2641, 1921, 2710>>, <<1252, 1758, 1380, 1572, 4072>>, <<1187, 7914, 0624, 1697, 8196>>,
        <<1133, 3318, 2511, 3452, 3752>>, <<0393, 3899, 6312, 7860, 8623>>, <<1663, 5128, 9720, 2115, 7924>>,
        <<1029, 1337, 1731, 0895, 0450>>, <<0414, 2107, 1550, 2419, 9350>>, <<1697, 3934, 5337, 8774, 3537>>,
        <<1106, 8111, 5391, 2517, 5221>>, <<1754, 6769, 6948, 3020, 3606>>, <<0531, 5217, 7448, 2506, 8993>>,
        <<0460, 9594, 2529, 0961, 3081>>
      >>,
      <<
        <<0335, 0107, 1643, 1527, 0407>>, <<1771, 5942, 8342, 9934, 9177>>, <<0960, 0609, 1492, 1987, 3996>>,
        <<1289, 4357, 6358, 2000, 3949>>, <<0459, 7649, 6580, 4051, 4631>>, <<0773, 5563, 9509, 2049, 1847>>,
        <<0166, 3379, 4558, 7088, 7181>>, <<1388, 9298, 1036, 3882, 9706>>, <<0737, 5530, 3512, 2088, 4434>>,
        <<0350, 2022, 4332, 8526, 9151>>, <<0923, 1805, 3304, 3105, 6952>>, <<0925, 2272, 7552, 8852, 3725>>,
        <<1001, 4268, 6623, 2674, 6219>>, <<1556, 5031, 6329, 5084, 3234>>, <<0120, 9725, 2735, 2181, 9323>>,
        <<0602, 4642, 8645, 9784, 5108>>
      >>
    >>

ARK_Tip5 == ElementsOf(ARK_Tip5_decimal)

(***************************************************************************)
(* The three instantiations: tip4/mod.rs, tip4_prime/mod.rs, tip5/mod.rs.  *)
(* Ranges are half-open, [start, end), as in Rust; lane k of a state is    *)
(* element k + 1 of the sequence.                                          *)
(***************************************************************************)
Instantiations == {"Tip4_256", "Tip4p_256", "Tip5_320"}

STATE_WIDTH(inst) ==
    CASE inst = "Tip4_256" -> 16 [] inst = "Tip4p_256" -> 12 [] inst = "Tip5_320" -> 16

RATE_RANGE(inst) ==
    CASE inst = "Tip4_256"  -> [start |-> 0, end |-> 12]
      [] inst = "Tip4p_256" -> [start |-> 0, end |-> 8]
      [] inst = "Tip5_320"  -> [start |-> 0, end |-> 10]

RATE_WIDTH(inst) == RATE_RANGE(inst).end - RATE_RANGE(inst).start

INPUT1_RANGE(inst) ==
    CASE inst = "Tip4_256"  -> [start |-> 0, end |-> 4]
      [] inst = "Tip4p_256" -> [start |-> 0, end |-> 4]
      [] inst = "Tip5_320"  -> [start |-> 0, end |-> 5]

INPUT2_RANGE(inst) ==
    CASE inst = "Tip4_256"  -> [start |-> 4, end |-> 8]
      [] inst = "Tip4p_256" -> [start |-> 4, end |-> 8]
      [] inst = "Tip5_320"  -> [start |-> 5, end |-> 10]

\* the last four lanes of every instantiation
CAPACITY_RANGE_of_last_four(inst) ==
    [start |-> STATE_WIDTH(inst) - 4, end |-> STATE_WIDTH(inst)]

CAPACITY_RANGE(inst) ==
    CASE inst = "Tip4_256"  -> [start |-> 12, end |-> 16]
      [] inst = "Tip4p_256" -> [start |-> 8, end |-> 12]
      [] inst = "Tip5_320"  -> [start |-> 10, end |-> 16]

DIGEST_RANGE(inst) ==
    CASE inst = "Tip4_256"  -> [start |-> 0, end |-> 4]
      [] inst = "Tip4p_256" -> [start |-> 0, end |-> 4]
      [] inst = "Tip5_320"  -> [start |-> 0, end |-> 5]

DIGEST_SIZE(inst) == DIGEST_RANGE(inst).end - DIGEST_RANGE(inst).start

NUM_ROUNDS == 5

\* the table with the images of 0 and 255 exchanged
LOOKUP_TABLE_ends_exchanged(inst) ==
    [b \in 1..256 |->
        CASE b = 1   -> 255
          [] b = 256 -> 0
          [] OTHER   -> LOOKUP_TABLE_Tip4[b]]

\* the table with the image of 1 repeated at 2
LOOKUP_TABLE_with_repeat(inst) ==
    [b \in 1..256 |-> IF b = 3 THEN LOOKUP_TABLE_Tip4[2] ELSE LOOKUP_TABLE_Tip4[b]]

LOOKUP_TABLE(inst) ==
    CASE inst = "Tip4_256"  -> LOOKUP_TABLE_Tip4
      [] inst = "Tip4p_256" -> LOOKUP_TABLE_Tip4p
      [] inst = "Tip5_320"  -> LOOKUP_TABLE_Tip5

\* the matrix with its first two rows exchanged
MDS_rows_exchanged(inst) ==
    [r \in 1..STATE_WIDTH(inst) |->
        CASE inst = "Tip4_256"  -> MDS_Tip4[IF r = 1 THEN 2 ELSE IF r = 2 THEN 1 ELSE r]
          [] inst = "Tip4p_256" -> MDS_Tip4p[IF r = 1 THEN 2 ELSE IF r = 2 THEN 1 ELSE r]
          [] inst = "Tip5_320"  -> MDS_Tip5[IF r = 1 THEN 2 ELSE IF r = 2 THEN 1 ELSE r]]

MDS(inst) ==
    CASE inst = "Tip4_256"  -> MDS_Tip4
      [] inst = "Tip4p_256" -> MDS_Tip4p
      [] inst = "Tip5_320"  -> MDS_Tip5

\* the round constants with the rounds in reverse order
ARK_rounds_reversed(inst) ==
    [r \in 1..NUM_ROUNDS |->
        CASE inst = "Tip4_256"  -> ARK_Tip4[NUM_ROUNDS + 1 - r]
          [] inst = "Tip4p_256" -> ARK_Tip4p[NUM_ROUNDS + 1 - r]
          [] inst = "Tip5_320"  -> ARK_Tip5[NUM_ROUNDS + 1 - r]]

ARK(inst) ==
    CASE inst = "Tip4_256"  -> ARK_Tip4
      [] inst = "Tip4p_256" -> ARK_Tip4p
      [] inst = "Tip5_320"  -> ARK_Tip5

\* the array whose element k is f[k], every element computed
ArrayOf(f) == f \o <<>>

\* [BaseElement::ZERO; n]
ZeroState(n) == ArrayOf([k \in 1..n |-> FieldZERO])

\* a[range], the sub-slice of an array
Slice(a, range) == SubSeq(a, range.start + 1, range.end)

(***************************************************************************)
(* mds/mds_f64_16x16.rs: multiplication by the 16x16 MDS matrix in the     *)
(* frequency domain.  The stages of a transform run one after the other;   *)
(* binding each stage's result through a one-element set keeps that order  *)
(* of evaluation.                                                          *)
(***************************************************************************)
\* the shifts with those of lanes 0 and 1 exchanged
SHIFTS_lanes_exchanged == <<1, 4, 4, 3, 3, 7, 0, 5, 1, 5, 0, 2, 6, 2, 4, 1>>

SHIFTS == <<4, 1, 4, 3, 3, 7, 0, 5, 1, 5, 0, 2, 6, 2, 4, 1>>

POWERS_OF_OMEGA_BITREVERSED ==
    <<FieldONE>> \o ElementsOfRow(<<
        <<0000, 0281, 4749, 7671, 0656>>,
        <<1844, 6744, 0693, 9780, 7105>>,
        <<1844, 6742, 9699, 0295, 6801>>,
        <<1729, 3822, 5648, 0773, 7345>>,
        <<0000, 0000, 0000, 0000, 4096>>,
        <<0000, 4503, 5996, 2632, 1920>>,
        <<1844, 6744, 0006, 9510, 7585>>
    >>)

POWERS_OF_OMEGA_INVERSE ==
    <<FieldONE>> \o ElementsOfRow(<<
        <<0000, 0000, 0687, 1947, 6736>>,
        <<0000, 0001, 0995, 1162, 7520>>,
        <<1844, 6744, 0694, 1458, 0225>>,
        <<1844, 6462, 5944, 3787, 3665>>,
        <<1844, 2240, 4697, 8826, 2401>>,
        <<0000, 0000, 0000, 1677, 7216>>,
        <<0115, 2921, 5046, 0684, 6976>>
    >>)

\* ntt_noswap, outer loop iteration 1: lanes j and j + 8, twiddle ONE
NttOuter1(x) ==
    ArrayOf([k \in 1..16 |->
        IF k <= 8 THEN FieldAdd(x[k], FieldMul(x[k + 8], FieldONE))
                  ELSE FieldSub(x[k - 8], FieldMul(x[k], FieldONE))])

\* outer loop iteration 2: blocks i = 0, 1 of 8 lanes, lanes j and j + 4, twiddle zeta_i
NttOuter2(x) ==
    ArrayOf([k \in 1..16 |->
        LET zeta == POWERS_OF_OMEGA_BITREVERSED[((k - 1) \div 8) + 1]
        IN  IF (k - 1) % 8 < 4 THEN FieldAdd(x[k], FieldMul(x[k + 4], zeta))
                               ELSE FieldSub(x[k - 4], FieldMul(x[k], zeta))])

\* outer loop iteration 3: blocks i = 0..3 of 4 lanes, lanes j and j + 2
NttOuter3(x) ==
    ArrayOf([k \in 1..16 |->
        LET zeta == POWERS_OF_OMEGA_BITREVERSED[((k - 1) \div 4) + 1]
        IN  IF (k - 1) % 4 < 2 THEN FieldAdd(x[k], FieldMul(x[k + 2], zeta))
                               ELSE FieldSub(x[k - 2], FieldMul(x[k], zeta))])

\* outer loop iteration 4: blocks i = 0..7 of 2 lanes, lanes s and s + 1
NttOuter4(x) ==
    ArrayOf([k \in 1..16 |->
        LET zeta == POWERS_OF_OMEGA_BITREVERSED[((k - 1) \div 2) + 1]
        IN  IF (k - 1) % 2 < 1 THEN FieldAdd(x[k], FieldMul(x[k + 1], zeta))
                               ELSE FieldSub(x[k - 1], FieldMul(x[k], zeta))])

ntt_noswap(x) ==
    CHOOSE y \in { NttOuter4(c) : c \in { NttOuter3(b) : b \in
                 { NttOuter2(a) : a \in { NttOuter1(x) } } } } : TRUE

\* intt_noswap, outer loop iteration 1: lanes k and k + 1 for even k, no twiddle
InttOuter1(x) ==
    ArrayOf([k \in 1..16 |->
        IF (k - 1) % 2 < 1 THEN FieldAdd(x[k], x[k + 1])
                           ELSE FieldSub(x[k - 1], x[k])])

\* outer loop iteration 2: j = 0, 1, twiddle POWERS_OF_OMEGA_INVERSE[4 * j],
\* lanes b + j and b + j + 2 for b = 0, 4, 8, 12
InttOuter2(x) ==
    ArrayOf([k \in 1..16 |->
        LET zeta == POWERS_OF_OMEGA_INVERSE[4 * ((k - 1) % 2) + 1]
        IN  IF (k - 1) % 4 < 2 THEN FieldAdd(x[k], FieldMul(x[k + 2], zeta))
                               ELSE FieldSub(x[k - 2], FieldMul(x[k], zeta))])

\* outer loop iteration 3: j = 0..3, twiddle POWERS_OF_OMEGA_INVERSE[2 * j],
\* lanes b + j and b + j + 4 for b = 0, 8
InttOuter3(x) ==
    ArrayOf([k \in 1..16 |->
        LET zeta == POWERS_OF_OMEGA_INVERSE[2 * ((k - 1) % 4) + 1]
        IN  IF (k - 1) % 8 < 4 THEN FieldAdd(x[k], FieldMul(x[k + 4], zeta))
                               ELSE FieldSub(x[k - 4], FieldMul(x[k], zeta))])

\* outer loop iteration 4: j = 0..7, twiddle POWERS_OF_OMEGA_INVERSE[j], lanes j and j + 8
InttOuter4(x) ==
    ArrayOf([k \in 1..16 |->
        LET zeta == POWERS_OF_OMEGA_INVERSE[((k - 1) % 8) + 1]
        IN  IF k <= 8 THEN FieldAdd(x[k], FieldMul(x[k + 8], zeta))
                      ELSE FieldSub(x[k - 8], FieldMul(x[k], zeta))])

intt_noswap(x) ==
    CHOOSE y \in { InttOuter4(c) : c \in { InttOuter3(b) : b \in
                 { InttOuter2(a) : a \in { InttOuter1(x) } } } } : TRUE

\* array[i] = (state[i].inner() as u128) << SHIFTS[i]
ShiftLanes(state) == ArrayOf([k \in 1..16 |-> ShlWide(inner(state[k]), SHIFTS[k])])

\* state[i] = BaseElement::from_mont(mont_red_cst(array[i]))
ReduceLanes(array) == ArrayOf([k \in 1..16 |-> from_mont(mont_red_cst(array[k]))])

mds_multiply(state) ==
    CHOOSE y \in { intt_noswap(r) : r \in { ReduceLanes(a) : a \in
                 { ShiftLanes(f) : f \in { ntt_noswap(state) } } } } : TRUE

\* tests.rs, apply_mds_naive: result[i] = sum over j of MDS[i][j] * state[j],
\* accumulated from ZERO in the order j = 0, 1, ...
RECURSIVE DotFrom(_, _, _, _)
DotFrom(mds_row, state, j, r) ==
    IF j > Len(state) \/ j > Len(mds_row)
    THEN r
    ELSE CHOOSE y \in { DotFrom(mds_row, state, j + 1, a) :
                        a \in { FieldAdd(r, FieldMul(mds_row[j], state[j])) } } : TRUE

apply_mds_naive(mds, state) ==
    ArrayOf([k \in 1..Len(state) |-> DotFrom(mds[k], state, 1, FieldZERO)])

\* mds/mds_f64_12x12.rs, mds_multiply: the product of the 12x12 MDS matrix of
\* Tip4' with the state
mds_multiply_12x12(state) == apply_mds_naive(MDS_Tip4p, state)

(***************************************************************************)
(* The permutation: apply_split_and_lookup, apply_sbox, apply_mds,         *)
(* add_constants, apply_round, apply_permutation.                          *)
(***************************************************************************)
apply_split_and_lookup(inst, x) ==
    LET bytes  == to_le_bytes(inner(x))
        looked == ArrayOf([k \in 1..8 |-> LOOKUP_TABLE(inst)[bytes[k] + 1]])
    IN  from_mont(from_le_bytes(looked))

\* an S-box layer that looks up lanes 0..4
apply_sbox_five_lookups(inst, state) ==
    ArrayOf([k \in 1..STATE_WIDTH(inst) |->
        IF k - 1 <= 4 THEN apply_split_and_lookup(inst, state[k])
                      ELSE exp7(state[k])])

apply_sbox(inst, state) ==
    ArrayOf([k \in 1..STATE_WIDTH(inst) |->
        IF k - 1 <= 3 THEN apply_split_and_lookup(inst, state[k])
                      ELSE exp7(state[k])])

apply_mds(inst, state) ==
    IF inst = "Tip4p_256" THEN mds_multiply_12x12(state) ELSE mds_multiply(state)

\* state.iter_mut().zip(ark).for_each(|(s, &k)| *s += k)
add_constants(state, ark) ==
    ArrayOf([k \in 1..Len(state) |->
        IF k <= Len(ark) THEN FieldAdd(state[k], ark[k]) ELSE state[k]])

\* a round that adds its constants first
apply_round_constants_first == <<"add_constants", "apply_sbox", "apply_mds">>

\* apply_round: the helpers it calls, in the order it calls them
apply_round == <<"apply_sbox", "apply_mds", "add_constants">>

\* one helper of apply_round applied to the state in round `round`
RoundHelper(inst, helper, state, round) ==
    CASE helper = "apply_sbox"    -> apply_sbox(inst, state)
      [] helper = "apply_mds"     -> apply_mds(inst, state)
      [] helper = "add_constants" -> add_constants(state, ARK(inst)[round + 1])

(***************************************************************************)
(* The hashers as a state machine.  A client makes the calls of `calls`    *)
(* one after the other on the hasher `inst`; the call in progress has the  *)
(* locals of the function it runs, and `hist` keeps what each completed    *)
(* call returned.  `trace`, `rlog` and `perms` record what the call did:   *)
(* the state after initialisation, after every absorption and after every  *)
(* permutation; the helpers apply_permutation ran; the permutations.       *)
(***************************************************************************)
VARIABLES inst, calls, hist, pc, fn, arg, state, initial_state, i,
          num_elements, buf, pos, ret, round, helper, trace, rlog, perms,
          running, parked, preempted, segments

vars == <<inst, calls, hist, pc, fn, arg, state, initial_state, i,
          num_elements, buf, pos, ret, round, helper, trace, rlog, perms,
          running, parked, preempted, segments>>

client == <<inst, calls>>

\* what a step of a call leaves alone: the other threads, whether the call
\* was ever taken off the processor, the container of random elements of
\* crate air
elsewhere == <<running, parked, preempted, segments>>

Event(ev, idx, b, elem, st) ==
    [ev |-> ev, idx |-> idx, buf |-> b, elem |-> elem, st |-> st]

\* bytes.chunks(7): chunk c (from 0) of the slice, the last one possibly shorter
Chunk(bytes, c) ==
    SubSeq(bytes, 7 * c + 1, IF 7 * c + 7 < Len(bytes) THEN 7 * c + 7 ELSE Len(bytes))

\* the number of chunks bytes.chunks(7) yields
ChunkCount(bytes) == (Len(bytes) + 6) \div 7

\* a chunk count with room for a chunk that holds the pad byte alone
NumElements_counting_pad(bytes) == Len(bytes) \div 7 + 1

\* hash: let num_elements = if bytes.len() % 7 == 0 { .. } else { .. }
NumElements(bytes) ==
    IF Len(bytes) % 7 = 0 THEN Len(bytes) \div 7 ELSE Len(bytes) \div 7 + 1

\* an initial state in a buffer that the last call left its state in
InitialState_from_last_call(h, n) ==
    [(IF hist = <<>> THEN ZeroState(STATE_WIDTH(h)) ELSE hist[Len(hist)].state) EXCEPT
        ![CAPACITY_RANGE(h).start + 1] = BaseElement_new(U64Of(n))]

\* an initial state without the number of elements
InitialState_untagged(h, n) == ZeroState(STATE_WIDTH(h))

\* hash, hash_elements: the zero state with the number of elements in the
\* first capacity lane
InitialState(h, n) ==
    [ZeroState(STATE_WIDTH(h)) EXCEPT
        ![CAPACITY_RANGE(h).start + 1] = BaseElement_new(U64Of(n))]

\* hash: `if i < num_elements - 1`, the test on the rate cursor i that picks
\* the branch of the chunk loop (num_elements >= 1 inside the loop)
CopiesWholeChunk(cursor, n) == cursor < n - 1

\* hash: buf[..7].copy_from_slice(chunk); byte 7 of buf keeps its value
CopyChunk(b, chunk) == chunk \o SubSeq(b, 8, 8)

\* a padded buffer with the byte 255 after the chunk
PadChunk_with_high_pad(chunk) ==
    ArrayOf([k \in 1..8 |->
        IF k <= Len(chunk) THEN chunk[k] ELSE IF k = Len(chunk) + 1 THEN 255 ELSE 0])

\* hash: buf = [0_u8; 8]; buf[..chunk_len].copy_from_slice(chunk); buf[chunk_len] = 1
PadChunk(chunk) ==
    ArrayOf([k \in 1..8 |->
        IF k <= Len(chunk) THEN chunk[k] ELSE IF k = Len(chunk) + 1 THEN 1 ELSE 0])

\* Digest::digests_as_elements(values): the elements of the digests, in order
RECURSIVE digests_as_elements(_)
digests_as_elements(values) ==
    IF values = <<>> THEN <<>>
    ELSE Head(values) \o digests_as_elements(Tail(values))

\* copy_from_slice, and try_into on a slice: the lengths have to agree
SameLength(elems, r) == Len(elems) = r.end - r.start

\* the whole rate as the destination of the copy
MergeRange_whole_rate(h) == RATE_RANGE(h)

\* merge: the sub-slice of the state the two digests are copied into
MergeRange(h) ==
    IF h = "Tip4_256" THEN [start |-> 0, end |-> INPUT2_RANGE(h).end]
                      ELSE RATE_RANGE(h)

\* a merge state tagged with the number of elements copied
merge_state_tagged_by_elements(h, values) ==
    LET elems  == digests_as_elements(values)
        r      == MergeRange(h)
        copied == ArrayOf([k \in 1..STATE_WIDTH(h) |->
                      IF r.start < k /\ k <= r.end THEN elems[k - r.start]
                                                   ELSE FieldZERO])
    IN  [copied EXCEPT
            ![CAPACITY_RANGE(h).start + 1] = BaseElement_new(U64Of(Len(elems)))]

\* merge: the state handed to the permutation.  The digests have DIGEST_SIZE
\* elements each by their type, so copy_from_slice gets slices of equal length.
merge_state(h, values) ==
    LET elems  == digests_as_elements(values)
        r      == MergeRange(h)
        copied == ArrayOf([k \in 1..STATE_WIDTH(h) |->
                      IF r.start < k /\ k <= r.end THEN elems[k - r.start]
                                                   ELSE FieldZERO])
    IN  [copied EXCEPT
            ![CAPACITY_RANGE(h).start + 1] = BaseElement_new(U64Of(RATE_WIDTH(h)))]

\* a quotient that counts the divisor twice
DivU64_counting_twice(a, b) == IF LessU64(a, b) THEN U64Zero ELSE U64Of(2)

\* a / b on u64, b > 0
RECURSIVE DivU64(_, _)
DivU64(a, b) ==
    IF LessU64(a, b) THEN U64Zero
    ELSE wrapping_add(U64Of(1), DivU64(wrapping_sub(a, b), b))

\* a merge_with_int state that never splits the value
merge_with_int_state_unsplit(h, seed, value) ==
    LET r1     == INPUT1_RANGE(h)
        copied == ArrayOf([k \in 1..STATE_WIDTH(h) |->
                      IF r1.start < k /\ k <= r1.end THEN seed[k - r1.start]
                                                     ELSE FieldZERO])
    IN  [copied EXCEPT
            ![INPUT2_RANGE(h).start + 1] = BaseElement_new(value),
            ![CAPACITY_RANGE(h).start + 1] = BaseElement_new(U64Of(DIGEST_SIZE(h) + 1))]

\* a merge_with_int state with the rate width in the first capacity lane
merge_with_int_state_tagged_by_rate(h, seed, value) ==
    LET r1     == INPUT1_RANGE(h)
        copied == ArrayOf([k \in 1..STATE_WIDTH(h) |->
                      IF r1.start < k /\ k <= r1.end THEN seed[k - r1.start]
                                                     ELSE FieldZERO])
        first  == [copied EXCEPT
                      ![INPUT2_RANGE(h).start + 1] = BaseElement_new(value),
                      ![CAPACITY_RANGE(h).start + 1] = BaseElement_new(U64Of(RATE_WIDTH(h)))]
    IN  IF LessU64(value, MODULUS)
        THEN first
        ELSE [first EXCEPT
                ![INPUT2_RANGE(h).start + 2] = BaseElement_new(DivU64(value, MODULUS))]

\* a merge_with_int state without the seed
merge_with_int_state_seedless(h, seed, value) ==
    LET first == [ZeroState(STATE_WIDTH(h)) EXCEPT
                     ![INPUT2_RANGE(h).start + 1] = BaseElement_new(value)]
    IN  IF LessU64(value, MODULUS)
        THEN [first EXCEPT
                ![CAPACITY_RANGE(h).start + 1] = BaseElement_new(U64Of(DIGEST_SIZE(h) + 1))]
        ELSE [first EXCEPT
                ![INPUT2_RANGE(h).start + 2] = BaseElement_new(DivU64(value, MODULUS)),
                ![CAPACITY_RANGE(h).start + 1] = BaseElement_new(U64Of(DIGEST_SIZE(h) + 2))]

\* merge_with_int: the state handed to the permutation
merge_with_int_state(h, seed, value) ==
    LET r1     == INPUT1_RANGE(h)
        copied == ArrayOf([k \in 1..STATE_WIDTH(h) |->
                      IF r1.start < k /\ k <= r1.end THEN seed[k - r1.start]
                                                     ELSE FieldZERO])
        first  == [copied EXCEPT ![INPUT2_RANGE(h).start + 1] = BaseElement_new(value)]
    IN  IF LessU64(value, MODULUS)
        THEN [first EXCEPT
                ![CAPACITY_RANGE(h).start + 1] = BaseElement_new(U64Of(DIGEST_SIZE(h) + 1))]
        ELSE [first EXCEPT
                ![INPUT2_RANGE(h).start + 2] = BaseElement_new(DivU64(value, MODULUS)),
                ![CAPACITY_RANGE(h).start + 1] = BaseElement_new(U64Of(DIGEST_SIZE(h) + 2))]

\* the next call the client makes
Pending == Len(hist) < Len(calls)

NextCall == calls[Len(hist) + 1]

\* Self::apply_permutation(&mut state), control coming back at `r`
EnterPermutation(r) ==
    /\ pc' = "apply_permutation"
    /\ ret' = r
    /\ round' = 0
    /\ helper' = 1
    /\ rlog' = <<>>

\* pub fn hash(bytes: &[u8]) up to the chunk loop
CallHash ==
    /\ pc = "idle" /\ Pending /\ NextCall.fn = "hash"
    /\ fn' = "hash"
    /\ arg' = NextCall.arg
    /\ num_elements' = NumElements(NextCall.arg)
    /\ state' = InitialState(inst, NumElements(NextCall.arg))
    /\ i' = 0
    /\ buf' = <<0, 0, 0, 0, 0, 0, 0, 0>>
    /\ pos' = 0
    /\ perms' = 0
    /\ trace' = <<Event("init", 0, <<>>, <<>>, state')>>
    /\ pc' = "hash_loop"
    /\ UNCHANGED <<client, elsewhere, initial_state, hist, ret, round, helper, rlog>>

\* one iteration of `for chunk in bytes.chunks(7)` of hash
HashLoop ==
    /\ pc = "hash_loop" /\ pos < ChunkCount(arg)
    /\ LET chunk == Chunk(arg, pos)
           whole == CopiesWholeChunk(i, num_elements)
           nbuf  == IF whole THEN CopyChunk(buf, chunk) ELSE PadChunk(chunk)
           elem  == BaseElement_new(from_le_bytes(nbuf))
       IN  /\ whole => Len(chunk) = 7
           /\ buf' = nbuf
           /\ state' = [state EXCEPT ![RATE_RANGE(inst).start + i + 1] = FieldAdd(@, elem)]
           /\ trace' = Append(trace, Event("absorb", pos, nbuf, elem, state'))
    /\ i' = i + 1
    /\ pos' = pos + 1
    /\ IF (i + 1) % RATE_WIDTH(inst) = 0
       THEN EnterPermutation("hash_loop")
       ELSE pc' = "hash_loop" /\ UNCHANGED <<ret, round, helper, rlog>>
    /\ UNCHANGED <<client, elsewhere, initial_state, hist, fn, arg, num_elements, perms>>

\* buf[..7].copy_from_slice(chunk) with a chunk shorter than 7 bytes: the
\* slices differ in length and copy_from_slice panics
HashLoopPanic ==
    /\ pc = "hash_loop" /\ pos < ChunkCount(arg)
    /\ CopiesWholeChunk(i, num_elements)
    /\ Len(Chunk(arg, pos)) # 7
    /\ pc' = "panic"
    /\ UNCHANGED <<client, elsewhere, initial_state, hist, fn, arg, state, i, num_elements, buf, pos,
                   ret, round, helper, trace, rlog, perms>>

\* after the loop of hash or hash_elements: `if i > 0 { apply_permutation }`
AfterLoop(loop) ==
    /\ pc = loop
    /\ IF i > 0
       THEN EnterPermutation("finish")
       ELSE pc' = "finish" /\ UNCHANGED <<ret, round, helper, rlog>>
    /\ UNCHANGED <<client, elsewhere, initial_state, hist, fn, arg, state, i, num_elements, buf, pos,
                   trace, perms>>

HashAfterLoop == pos = ChunkCount(arg) /\ AfterLoop("hash_loop")

\* fn hash_elements(elements: &[E]) up to the loop
CallHashElements ==
    /\ pc = "idle" /\ Pending /\ NextCall.fn = "hash_elements"
    /\ fn' = "hash_elements"
    /\ arg' = NextCall.arg
    /\ num_elements' = Len(NextCall.arg)
    /\ state' = InitialState(inst, Len(NextCall.arg))
    /\ i' = 0
    /\ buf' = <<>>
    /\ pos' = 0
    /\ perms' = 0
    /\ trace' = <<Event("init", 0, <<>>, <<>>, state')>>
    /\ pc' = "hash_elements_loop"
    /\ UNCHANGED <<client, elsewhere, initial_state, hist, ret, round, helper, rlog>>

\* an iteration that writes the element over the rate lane
HashElementsLoop_writing_over ==
    /\ pc = "hash_elements_loop" /\ pos < Len(arg)
    /\ state' = [state EXCEPT ![RATE_RANGE(inst).start + i + 1] = arg[pos + 1]]
    /\ trace' = Append(trace, Event("absorb", pos, <<>>, arg[pos + 1], state'))
    /\ i' = i + 1
    /\ pos' = pos + 1
    /\ IF (i + 1) % RATE_WIDTH(inst) = 0
       THEN EnterPermutation("hash_elements_loop")
       ELSE pc' = "hash_elements_loop" /\ UNCHANGED <<ret, round, helper, rlog>>
    /\ UNCHANGED <<client, elsewhere, initial_state, hist, fn, arg, num_elements, buf, perms>>

\* one iteration of `for &element in elements.iter()` of hash_elements
HashElementsLoop ==
    /\ pc = "hash_elements_loop" /\ pos < Len(arg)
    /\ state' = [state EXCEPT
                    ![RATE_RANGE(inst).start + i + 1] = FieldAdd(@, arg[pos + 1])]
    /\ trace' = Append(trace, Event("absorb", pos, <<>>, arg[pos + 1], state'))
    /\ i' = i + 1
    /\ pos' = pos + 1
    /\ IF (i + 1) % RATE_WIDTH(inst) = 0
       THEN EnterPermutation("hash_elements_loop")
       ELSE pc' = "hash_elements_loop" /\ UNCHANGED <<ret, round, helper, rlog>>
    /\ UNCHANGED <<client, elsewhere, initial_state, hist, fn, arg, num_elements, buf, perms>>

HashElementsAfterLoop == pos = Len(arg) /\ AfterLoop("hash_elements_loop")

\* a call that builds one state and permutes it once
CallOneShot(name, st) ==
    /\ fn' = name
    /\ arg' = NextCall.arg
    /\ state' = st
    /\ num_elements' = 0
    /\ i' = 0
    /\ buf' = <<>>
    /\ pos' = 0
    /\ perms' = 0
    /\ trace' = <<Event("init", 0, <<>>, <<>>, st)>>
    /\ UNCHANGED <<client, elsewhere, hist>>

\* a call that panics before it has a state
CallPanics(name) ==
    /\ fn' = name
    /\ arg' = NextCall.arg
    /\ pc' = "panic"
    /\ UNCHANGED <<client, elsewhere, hist, state, initial_state, i, num_elements,
                   buf, pos, ret, round, helper, trace, rlog, perms>>

\* fn merge(values: &[Self::Digest; 2]) up to the permutation;
\* copy_from_slice panics when the two slices differ in length
CallMerge ==
    /\ pc = "idle" /\ Pending /\ NextCall.fn = "merge"
    /\ IF SameLength(digests_as_elements(NextCall.arg), MergeRange(inst))
       THEN /\ CallOneShot("merge", merge_state(inst, NextCall.arg))
            /\ initial_state' = <<>>
            /\ EnterPermutation("finish")
       ELSE CallPanics("merge")

\* fn merge_with_int(seed: Self::Digest, value: u64) up to the permutation
CallMergeWithInt ==
    /\ pc = "idle" /\ Pending /\ NextCall.fn = "merge_with_int"
    /\ IF SameLength(NextCall.arg[1], INPUT1_RANGE(inst))
       THEN /\ CallOneShot("merge_with_int",
                           merge_with_int_state(inst, NextCall.arg[1], NextCall.arg[2]))
            /\ initial_state' = <<>>
            /\ EnterPermutation("finish")
       ELSE CallPanics("merge_with_int")

\* Tip4_256::merge_4_digests up to the permutation: initial_state is the 16
\* elements of the digests (try_into().unwrap() panics on another length),
\* state a copy of it
CallMerge4Digests ==
    /\ pc = "idle" /\ Pending /\ NextCall.fn = "merge_4_digests"
    /\ inst = "Tip4_256"
    /\ IF Len(digests_as_elements(NextCall.arg)) = STATE_WIDTH(inst)
       THEN /\ CallOneShot("merge_4_digests", digests_as_elements(NextCall.arg))
            /\ initial_state' = digests_as_elements(NextCall.arg)
            /\ EnterPermutation("apply_jive4_summation")
       ELSE CallPanics("merge_4_digests")

\* pub fn apply_permutation(state: &mut [BaseElement; STATE_WIDTH]) called by a client
CallApplyPermutation ==
    /\ pc = "idle" /\ Pending /\ NextCall.fn = "apply_permutation"
    /\ CallOneShot("apply_permutation", NextCall.arg)
    /\ initial_state' = <<>>
    /\ EnterPermutation("finish")

\* mds_f64_16x16::mds_multiply(state) called by a client
CallMdsMultiply ==
    /\ pc = "idle" /\ Pending /\ NextCall.fn = "mds_multiply"
    /\ CallOneShot("mds_multiply", NextCall.arg)
    /\ initial_state' = <<>>
    /\ pc' = "mds_multiply"
    /\ UNCHANGED <<ret, round, helper, rlog>>

MdsMultiply ==
    /\ pc = "mds_multiply"
    /\ state' = mds_multiply(state)
    /\ pc' = "finish"
    /\ UNCHANGED <<client, elsewhere, initial_state, hist, fn, arg, i, num_elements, buf, pos,
                   ret, round, helper, trace, rlog, perms>>

\* apply_permutation: `for i in 0..NUM_ROUNDS { apply_round(state, i) }`, one
\* helper of apply_round at a time
RoundStep(name) ==
    /\ round < NUM_ROUNDS
    /\ apply_round[helper] = name
    /\ state' = RoundHelper(inst, name, state, round)
    /\ rlog' = Append(rlog, [helper |-> name, round |-> round])
    /\ IF helper = Len(apply_round)
       THEN helper' = 1 /\ round' = round + 1
       ELSE helper' = helper + 1 /\ round' = round
    /\ UNCHANGED <<client, elsewhere, initial_state, hist, pc, fn, arg, i, num_elements, buf, pos,
                   ret, trace, perms>>

ApplySbox == pc = "apply_permutation" /\ RoundStep("apply_sbox")

ApplyMds == pc = "apply_permutation" /\ RoundStep("apply_mds")

AddConstants == pc = "apply_permutation" /\ RoundStep("add_constants")

\* a return from apply_permutation after which the cursor keeps its value
PermutationReturn_keeping_cursor ==
    /\ pc = "apply_permutation" /\ round = NUM_ROUNDS
    /\ pc' = ret
    /\ perms' = perms + 1
    /\ trace' = Append(trace, Event("permutation", perms, <<>>, <<>>, state))
    /\ UNCHANGED <<client, elsewhere, initial_state, hist, fn, arg, state, i, num_elements, buf,
                   pos, ret, round, helper, rlog>>

\* apply_permutation returns; in the loops of hash and hash_elements the
\* statement after the call is `i = 0`
PermutationReturn ==
    /\ pc = "apply_permutation" /\ round = NUM_ROUNDS
    /\ pc' = ret
    /\ i' = IF ret \in {"hash_loop", "hash_elements_loop"} THEN 0 ELSE i
    /\ perms' = perms + 1
    /\ trace' = Append(trace, Event("permutation", perms, <<>>, <<>>, state))
    /\ UNCHANGED <<client, elsewhere, initial_state, hist, fn, arg, state, num_elements, buf, pos,
                   ret, round, helper, rlog>>

\* the call returns `digest` to the client and its locals are gone
Returns(digest) ==
    /\ hist' = Append(hist, [fn      |-> fn,
                             arg     |-> arg,
                             digest  |-> digest,
                             state   |-> state,
                             initial |-> initial_state,
                             trace   |-> trace,
                             perms   |-> perms,
                             preempted |-> preempted])
    /\ pc' = "idle"
    /\ fn' = "none"
    /\ arg' = <<>>
    /\ state' = <<>>
    /\ initial_state' = <<>>
    /\ i' = 0
    /\ num_elements' = 0
    /\ buf' = <<>>
    /\ pos' = 0
    /\ trace' = <<>>
    /\ perms' = 0
    /\ preempted' = FALSE
    /\ UNCHANGED <<client, running, parked, segments, ret, round, helper, rlog>>

\* the call returns: ElementDigest::new(state[DIGEST_RANGE]) for the hash
\* functions, the state left in place for apply_permutation and mds_multiply
Return == pc = "finish" /\ Returns(Slice(state, DIGEST_RANGE(inst)))

\* a summation of the stripes of the final state alone
apply_jive4_summation_final_only(initial, final) ==
    ArrayOf([k \in 1..DIGEST_SIZE("Tip4_256") |->
        FieldAdd(FieldAdd(FieldAdd(
            final[k],
            final[DIGEST_SIZE("Tip4_256") + k]),
            final[2 * DIGEST_SIZE("Tip4_256") + k]),
            final[3 * DIGEST_SIZE("Tip4_256") + k])])

\* Tip4_256::apply_jive4_summation(&initial_state, &final_state): for lane i
\* of the digest the sum of lane i of the four stripes of both states, added
\* from left to right
apply_jive4_summation(initial, final) ==
    ArrayOf([k \in 1..DIGEST_SIZE("Tip4_256") |->
        FieldAdd(FieldAdd(FieldAdd(FieldAdd(FieldAdd(FieldAdd(FieldAdd(
            initial[k],
            initial[DIGEST_SIZE("Tip4_256") + k]),
            initial[2 * DIGEST_SIZE("Tip4_256") + k]),
            initial[3 * DIGEST_SIZE("Tip4_256") + k]),
            final[k]),
            final[DIGEST_SIZE("Tip4_256") + k]),
            final[2 * DIGEST_SIZE("Tip4_256") + k]),
            final[3 * DIGEST_SIZE("Tip4_256") + k])])

\* merge_4_digests returns Self::apply_jive4_summation(&initial_state, &state)
Merge4DigestsReturn ==
    /\ pc = "apply_jive4_summation"
    /\ Returns(apply_jive4_summation(initial_state, state))

(***************************************************************************)
(* Threads.  Every function of the hashers keeps what it works on in its   *)
(* locals; the tables it reads are constants.  `running` is the thread     *)
(* that has the processor, `parked` holds the other threads, each with the *)
(* calls it makes, the results it got and the locals of its call.          *)
(***************************************************************************)
\* a frame that keeps the rate cursor outside of the thread
Frame_sharing_cursor ==
    [thread |-> running,
     calls |-> calls, hist |-> hist, pc |-> pc, fn |-> fn, arg |-> arg,
     state |-> state, initial_state |-> initial_state, i |-> 0,
     num_elements |-> num_elements, buf |-> buf, pos |-> pos, ret |-> ret,
     round |-> round, helper |-> helper, trace |-> trace, rlog |-> rlog,
     perms |-> perms, preempted |-> preempted \/ pc # "idle"]

\* what belongs to the running thread
Frame ==
    [thread |-> running,
     calls |-> calls, hist |-> hist, pc |-> pc, fn |-> fn, arg |-> arg,
     state |-> state, initial_state |-> initial_state, i |-> i,
     num_elements |-> num_elements, buf |-> buf, pos |-> pos, ret |-> ret,
     round |-> round, helper |-> helper, trace |-> trace, rlog |-> rlog,
     perms |-> perms, preempted |-> preempted \/ pc # "idle"]

\* the thread with frame f goes on from where it stopped
Resume(f) ==
    /\ running' = f.thread
    /\ calls' = f.calls
    /\ hist' = f.hist
    /\ pc' = f.pc
    /\ fn' = f.fn
    /\ arg' = f.arg
    /\ state' = f.state
    /\ initial_state' = f.initial_state
    /\ i' = f.i
    /\ num_elements' = f.num_elements
    /\ buf' = f.buf
    /\ pos' = f.pos
    /\ ret' = f.ret
    /\ round' = f.round
    /\ helper' = f.helper
    /\ trace' = f.trace
    /\ rlog' = f.rlog
    /\ perms' = f.perms
    /\ preempted' = f.preempted

\* a thread that has not started on the calls it is to make
NewThread(script) ==
    [thread |-> Len(parked) + 2,
     calls |-> script, hist |-> <<>>, pc |-> "idle", fn |-> "none", arg |-> <<>>,
     state |-> <<>>, initial_state |-> <<>>, i |-> 0, num_elements |-> 0,
     buf |-> <<>>, pos |-> 0, ret |-> "finish", round |-> 0, helper |-> 1,
     trace |-> <<>>, rlog |-> <<>>, perms |-> 0, preempted |-> FALSE]

\* a parked thread with something left to do; a thread that panicked is gone
Runnable(f) == f.pc # "panic" /\ (f.pc # "idle" \/ Len(f.hist) < Len(f.calls))

\* the client starts a thread that makes the calls of the argument
CallSpawn ==
    /\ pc = "idle" /\ Pending /\ NextCall.fn = "spawn"
    /\ parked' = Append(parked, NewThread(NextCall.arg))
    /\ hist' = Append(hist, [fn |-> "spawn", arg |-> NextCall.arg])
    /\ UNCHANGED <<client, running, preempted, segments, pc, fn, arg, state,
                   initial_state, i, num_elements, buf, pos, ret, round, helper,
                   trace, rlog, perms>>

\* the scheduler takes the processor from the running thread, between two of
\* its steps, and gives it to a parked one
Switch ==
    \E t \in 1..Len(parked) :
        /\ Runnable(parked[t])
        /\ parked' = [parked EXCEPT ![t] = Frame]
        /\ Resume(parked[t])
        /\ UNCHANGED <<inst, segments>>

(***************************************************************************)
(* air/src/air/coefficients.rs: AuxTraceRandElements, a Vec of Vecs of     *)
(* field elements.  `segments` is its field; the client's operations on it *)
(* and their results are kept in `hist`.                                   *)
(***************************************************************************)
\* the client makes up to MaxOps operations, reads at indices 0..MaxIndex and
\* adds one of these sequences of elements
MaxOps == 4

MaxIndex == 2

RandElements == { <<>>, <<FieldZERO>>, <<FieldONE, FieldZERO>> }

\* an operation of the container returned `result`
OperationReturns(name, a, result) ==
    /\ hist' = Append(hist, [fn |-> name, arg |-> a, result |-> result])
    /\ UNCHANGED <<client, running, parked, preempted, pc, fn, arg, state,
                   initial_state, i, num_elements, buf, pos, ret, round, helper,
                   trace, rlog, perms>>

\* pub fn new() -> Self { Self(Vec::new()) }
new ==
    /\ pc = "idle" /\ calls = <<>> /\ Len(hist) < MaxOps
    /\ segments' = <<>>
    /\ OperationReturns("new", <<>>, <<>>)

\* fn default() -> Self { Self::new() }
default ==
    /\ pc = "idle" /\ calls = <<>> /\ Len(hist) < MaxOps
    /\ segments' = <<>>
    /\ OperationReturns("default", <<>>, <<>>)

\* a Vec with the element pushed in front
push_front(vec, element) == <<element>> \o vec

\* Vec::push
push(vec, element) == Append(vec, element)

\* pub fn add_segment_elements(&mut self, rand_elements: Vec<E>)
add_segment_elements ==
    /\ pc = "idle" /\ calls = <<>> /\ Len(hist) < MaxOps
    /\ \E rand_elements \in RandElements :
          /\ segments' = push(segments, rand_elements)
          /\ OperationReturns("add_segment_elements", rand_elements, <<>>)

\* a read that answers an index past the end with an empty slice
get_segment_elements_or_empty ==
    /\ pc = "idle" /\ calls = <<>> /\ Len(hist) < MaxOps
    /\ \E aux_segment_idx \in 0..MaxIndex :
          /\ OperationReturns("get_segment_elements", aux_segment_idx,
                              IF aux_segment_idx < Len(segments)
                              THEN segments[aux_segment_idx + 1] ELSE <<>>)
          /\ UNCHANGED segments

\* pub fn get_segment_elements(&self, aux_segment_idx: usize) -> &[E]:
\* indexing a Vec past its length panics
get_segment_elements ==
    /\ pc = "idle" /\ calls = <<>> /\ Len(hist) < MaxOps
    /\ \E aux_segment_idx \in 0..MaxIndex :
          IF aux_segment_idx < Len(segments)
          THEN /\ OperationReturns("get_segment_elements", aux_segment_idx,
                           segments[aux_segment_idx + 1])
               /\ UNCHANGED segments
          ELSE /\ pc' = "panic"
               /\ fn' = "get_segment_elements"
               /\ arg' = aux_segment_idx
               /\ UNCHANGED <<client, elsewhere, hist, state, initial_state, i,
                              num_elements, buf, pos, ret, round, helper, trace,
                              rlog, perms>>

(***************************************************************************)
(* The constant tables, read one entry at a time.                          *)
(***************************************************************************)
\* MDS[row][col] of the instantiation
ReadMds ==
    /\ pc = "idle" /\ hist = <<>> /\ calls = <<>>
    /\ \E row \in 0..(STATE_WIDTH(inst) - 1), col \in 0..(STATE_WIDTH(inst) - 1) :
          hist' = <<[fn |-> "MDS", arg |-> <<row, col>>,
                     result |-> MDS(inst)[row + 1][col + 1]]>>
    /\ UNCHANGED <<client, elsewhere, pc, fn, arg, state, initial_state, i,
                   num_elements, buf, pos, ret, round, helper, trace, rlog, perms>>

\* LOOKUP_TABLE[byte] of the instantiation
ReadLookup ==
    /\ pc = "idle" /\ hist = <<>> /\ calls = <<>>
    /\ \E byte \in 0..255 :
          hist' = <<[fn |-> "LOOKUP_TABLE", arg |-> byte,
                     result |-> LOOKUP_TABLE(inst)[byte + 1]]>>
    /\ UNCHANGED <<client, elsewhere, pc, fn, arg, state, initial_state, i,
                   num_elements, buf, pos, ret, round, helper, trace, rlog, perms>>

(***************************************************************************)
(* The calls the client makes.                                             *)
(***************************************************************************)
\* byte strings of 0..MaxShort bytes, and of 7 * RATE_WIDTH - 1 up to
\* 7 * RATE_WIDTH + MaxOver bytes: around and beyond one full rate
MaxShort == 8

MaxOver == 7

ByteLengths(h) ==
    (0..MaxShort) \cup { 7 * RATE_WIDTH(h) - 1 + d : d \in 0..(MaxOver + 1) }

BytePatterns == {"zero", "mixed", "ones"}

ByteAt(pattern, k) ==
    CASE pattern = "zero"  -> 0
      [] pattern = "mixed" -> (37 * k + 11) % 256
      [] pattern = "ones"  -> 255

Bytes(pattern, n) == ArrayOf([k \in 1..n |-> ByteAt(pattern, k)])

ByteStrings(h) == { Bytes(pattern, n) : pattern \in BytePatterns, n \in ByteLengths(h) }

\* the 8-byte buffer chunk c (from 0) of a byte string is to be absorbed from:
\* the last chunk, of k bytes, followed by the byte 1 at offset k and zeros,
\* every earlier chunk followed by the byte 0
DocumentedBuffer(bytes, c) ==
    LET n == (Len(bytes) + 6) \div 7
        k == Len(bytes) - 7 * (n - 1)
    IN  ArrayOf([j \in 1..8 |->
            IF c = n - 1
            THEN IF j <= k THEN bytes[7 * c + j] ELSE IF j = k + 1 THEN 1 ELSE 0
            ELSE IF j <= 7 THEN bytes[7 * c + j] ELSE 0])

\* the element sequence of a byte string: the little-endian u64 of each buffer
DocumentedElements(bytes) ==
    ArrayOf([c \in 1..((Len(bytes) + 6) \div 7) |->
        BaseElement_new(from_le_bytes(DocumentedBuffer(bytes, c - 1)))])

Call(name, a) == [fn |-> name, arg |-> a]

\* hash(b) followed by hash_elements of the elements of b, or by hash(b ++ [0])
HashScenarios ==
    UNION { UNION {
        { <<h, <<Call("hash", b), Call("hash_elements", DocumentedElements(b))>> >>,
          <<h, <<Call("hash", b), Call("hash", b \o <<0>>)>> >> } :
        b \in ByteStrings(h) } : h \in Instantiations }

\* p - 1, the largest reduced word, and 2^64 - 1
TopWord == <<0, 0, 65535, 65535>>

AllOnesWord == <<65535, 65535, 65535, 65535>>

StatePatterns == {"zero", "count", "top", "mixed", "unreduced"}

\* lane k - 1 of a state of the given pattern
Lane(pattern, k) ==
    CASE pattern = "zero"      -> FieldZERO
      [] pattern = "count"     -> BaseElement_new(U64Of(k - 1))
      [] pattern = "top"       -> from_mont(TopWord)
      [] pattern = "mixed"     -> from_mont(<<(4099 * k) % 65536, 65535 - k,
                                             (257 * k) % 65536, 65535 - (k % 3)>>)
      [] pattern = "unreduced" -> from_mont(AllOnesWord)

Lanes(pattern, n) == ArrayOf([k \in 1..n |-> Lane(pattern, k)])

Digests(h) == { Lanes(pattern, DIGEST_SIZE(h)) : pattern \in {"zero", "count", "top", "mixed"} }

IntValues ==
    { U64Zero, U64Of(1), <<0, 0, 1, 0>>, TopWord, MODULUS, <<2, 0, 65535, 65535>>,
      AllOnesWord }

\* four digests for Tip4_256::merge_4_digests
Merge4Scenarios ==
    { <<"Tip4_256", <<Call("merge_4_digests", <<a, b, c, d>>)>> >> :
          a \in Digests("Tip4_256") \ {Lanes("zero", 4)},
          b \in Digests("Tip4_256") \ {Lanes("zero", 4)},
          c \in Digests("Tip4_256") \ {Lanes("zero", 4)},
          d \in Digests("Tip4_256") \ {Lanes("zero", 4)} }

MergeScenarios ==
    UNION { { <<h, <<Call("merge", <<a, b>>)>> >> : a \in Digests(h), b \in Digests(h) }
            \cup
            { <<h, <<Call("merge_with_int", <<seed, value>>)>> >> :
                  seed \in Digests(h), value \in IntValues } : h \in Instantiations }
    \cup Merge4Scenarios

\* element sequences of 0..MaxFew elements and of RATE_WIDTH - 1 up to
\* RATE_WIDTH + 1 elements
MaxFew == 2

ElementLengths(h) ==
    (0..MaxFew) \cup { RATE_WIDTH(h) - 1, RATE_WIDTH(h), RATE_WIDTH(h) + 1 }

ElementSequences(h) ==
    { Lanes(pattern, n) :
          pattern \in {"zero", "count", "top", "mixed"}, n \in ElementLengths(h) }

\* hash_elements(e) followed by hash_elements(e ++ [0])
ElementScenarios ==
    UNION { { <<h, <<Call("hash_elements", e),
                     Call("hash_elements", e \o <<FieldZERO>>)>> >> :
                  e \in ElementSequences(h) } : h \in Instantiations }

PermScenarios ==
    { <<h, <<Call("apply_permutation", Lanes(pattern, STATE_WIDTH(h)))>> >> :
          h \in Instantiations, pattern \in StatePatterns }

\* the state with scalar c in lane j - 1 and zero elsewhere
UnitState(j, c) == ArrayOf([k \in 1..16 |-> IF k = j THEN c ELSE FieldZERO])

MdsScalars == { FieldONE, BaseElement_new(U64Of(2)), from_mont(TopWord) }

MdsStates ==
    { UnitState(j, c) : j \in 1..16, c \in MdsScalars }
    \cup { Lanes(pattern, 16) : pattern \in {"zero", "count", "top", "mixed"} }

MdsScenarios ==
    { <<h, <<Call("mds_multiply", s)>> >> : h \in {"Tip4_256", "Tip5_320"}, s \in MdsStates }

InitFrom(scenarios) ==
    /\ \E sc \in scenarios : inst = sc[1] /\ calls = sc[2]
    /\ hist = <<>>
    /\ pc = "idle"
    /\ fn = "none"
    /\ arg = <<>>
    /\ state = <<>>
    /\ initial_state = <<>>
    /\ i = 0
    /\ num_elements = 0
    /\ buf = <<>>
    /\ pos = 0
    /\ ret = "finish"
    /\ round = 0
    /\ helper = 1
    /\ trace = <<>>
    /\ rlog = <<>>
    /\ perms = 0
    /\ running = 1
    /\ parked = <<>>
    /\ preempted = FALSE
    /\ segments = <<>>

Permutation == ApplySbox \/ ApplyMds \/ AddConstants \/ PermutationReturn

\* the byte hasher against the element hasher and against itself
InitHash == InitFrom(HashScenarios)

NextHash ==
    \/ CallHash \/ HashLoop \/ HashLoopPanic \/ HashAfterLoop
    \/ CallHashElements \/ HashElementsLoop \/ HashElementsAfterLoop
    \/ ApplySbox \/ ApplyMds \/ AddConstants \/ PermutationReturn
    \/ Return

SpecHash == InitHash /\ [][NextHash]_vars

\* the two-to-one functions
InitMerge == InitFrom(MergeScenarios)

NextMerge ==
    \/ CallMerge \/ CallMergeWithInt \/ CallMerge4Digests
    \/ ApplySbox \/ ApplyMds \/ AddConstants \/ PermutationReturn
    \/ Return \/ Merge4DigestsReturn

SpecMerge == InitMerge /\ [][NextMerge]_vars

\* the permutation on its own
InitPerm == InitFrom(PermScenarios)

NextPerm ==
    \/ CallApplyPermutation
    \/ ApplySbox \/ ApplyMds \/ AddConstants \/ PermutationReturn
    \/ Return

SpecPerm == InitPerm /\ [][NextPerm]_vars

\* the 16x16 MDS kernel on its own
InitMds == InitFrom(MdsScenarios)

NextMds == CallMdsMultiply \/ MdsMultiply \/ Return

SpecMds == InitMds /\ [][NextMds]_vars

\* the element hasher against itself
InitElements == InitFrom(ElementScenarios)

NextElements ==
    \/ CallHashElements \/ HashElementsLoop \/ HashElementsAfterLoop
    \/ ApplySbox \/ ApplyMds \/ AddConstants \/ PermutationReturn
    \/ Return

SpecElements == InitElements /\ [][NextElements]_vars

\* the calls of one hasher: every function on a few inputs, hash also on
\* 7 * (RATE_WIDTH + 1) and on 7 * RATE_WIDTH + 1 bytes
CallsOf(h) ==
    { Call("hash", Bytes("mixed", n)) :
          n \in {0, 1, MaxShort, 7 * RATE_WIDTH(h) + 7, 7 * RATE_WIDTH(h) + 1} }
    \cup { Call("hash_elements", Lanes(pattern, n)) :
               pattern \in {"count", "top"}, n \in {MaxFew, RATE_WIDTH(h) + 1} }
    \cup { Call("merge", <<Lanes(pattern, DIGEST_SIZE(h)), Lanes("mixed", DIGEST_SIZE(h))>>) :
               pattern \in {"count", "top"} }
    \cup { Call("merge_with_int", <<Lanes("count", DIGEST_SIZE(h)), value>>) :
               value \in {U64Of(1), AllOnesWord} }
    \cup { Call("apply_permutation", Lanes(pattern, STATE_WIDTH(h))) :
               pattern \in {"count", "unreduced"} }
    \cup IF h = "Tip4_256"
         THEN { Call("merge_4_digests", <<Lanes(pattern, 4), Lanes("top", 4),
                                          Lanes("mixed", 4), Lanes("count", 4)>>) :
                    pattern \in {"count", "top"} }
         ELSE {}

\* the same call made twice
RepeatScenarios ==
    UNION { { <<h, <<c, c>> >> : c \in CallsOf(h) } : h \in Instantiations }

InitRepeat == InitFrom(RepeatScenarios)

NextRepeat ==
    \/ CallHash \/ HashLoop \/ HashLoopPanic \/ HashAfterLoop
    \/ CallHashElements \/ HashElementsLoop \/ HashElementsAfterLoop
    \/ CallMerge \/ CallMergeWithInt \/ CallMerge4Digests
    \/ CallApplyPermutation
    \/ ApplySbox \/ ApplyMds \/ AddConstants \/ PermutationReturn
    \/ Return \/ Merge4DigestsReturn

SpecRepeat == InitRepeat /\ [][NextRepeat]_vars

\* a thread makes two calls alone, starts a second thread that makes the
\* second of them again, and makes the first again itself
BesideEachOther(h) ==
    { <<Call("hash", Bytes("mixed", MaxShort)), Call("hash_elements", Lanes("count", MaxFew))>>,
      <<Call("merge", <<Lanes("count", DIGEST_SIZE(h)), Lanes("mixed", DIGEST_SIZE(h))>>),
        Call("merge_with_int", <<Lanes("top", DIGEST_SIZE(h)), AllOnesWord>>)>>,
      <<Call("hash_elements", Lanes("top", MaxFew)),
        Call("merge", <<Lanes("mixed", DIGEST_SIZE(h)), Lanes("top", DIGEST_SIZE(h))>>)>> }

\* or it starts a thread whose call panics, 7 * RATE_WIDTH + 1 bytes being
\* more than hash gets through
ThreadScenarios ==
    UNION { { <<h, <<p[1], p[2], Call("spawn", <<p[2]>>), p[1]>> >> : p \in BesideEachOther(h) }
            \cup
            { <<h, <<Call("hash_elements", Lanes("mixed", MaxFew)),
                     Call("spawn", <<Call("hash", Bytes("zero", 7 * RATE_WIDTH(h) + 1))>>),
                     Call("hash_elements", Lanes("mixed", MaxFew))>> >> } :
            h \in Instantiations }

InitThreads == InitFrom(ThreadScenarios)

NextThreads ==
    \/ CallHash \/ HashLoop \/ HashLoopPanic \/ HashAfterLoop
    \/ CallHashElements \/ HashElementsLoop \/ HashElementsAfterLoop
    \/ CallMerge \/ CallMergeWithInt
    \/ ApplySbox \/ ApplyMds \/ AddConstants \/ PermutationReturn
    \/ Return
    \/ CallSpawn \/ Switch

SpecThreads == InitThreads /\ [][NextThreads]_vars

\* the container of random elements, on its own
InitAux == InitFrom({ <<h, <<>> >> : h \in {"Tip4_256"} })

NextAux == new \/ default \/ add_segment_elements \/ get_segment_elements

SpecAux == InitAux /\ [][NextAux]_vars

\* the constant tables
InitTables == InitFrom({ <<h, <<>> >> : h \in Instantiations })

NextTables == ReadMds \/ ReadLookup

SpecTables == InitTables /\ [][NextTables]_vars

\* single calls of hash and hash_elements on inputs of zero, one and two
\* elements and of one element less than, exactly, and one element more than
\* 1..MaxBlocks full rates; hash also one byte beyond a full rate
MaxBlocks == 2

SpongeByteLengths(h) ==
    {0, 7, 14}
    \cup UNION { { 7 * RATE_WIDTH(h) * b - 1, 7 * RATE_WIDTH(h) * b,
                   7 * RATE_WIDTH(h) * b + 1, 7 * RATE_WIDTH(h) * b + 7 } : b \in 1..MaxBlocks }

SpongeElementLengths(h) ==
    {0, 1, 2}
    \cup UNION { { RATE_WIDTH(h) * b - 1, RATE_WIDTH(h) * b, RATE_WIDTH(h) * b + 1 } :
                   b \in 1..MaxBlocks }

SpongeScenarios ==
    UNION { { <<h, <<Call("hash", Bytes(pattern, n))>> >> :
                  pattern \in {"mixed", "ones"}, n \in SpongeByteLengths(h) }
            \cup { <<h, <<Call("hash_elements", Lanes(pattern, n))>> >> :
                       pattern \in {"count", "top"}, n \in SpongeElementLengths(h) } :
            h \in Instantiations }

InitSponge == InitFrom(SpongeScenarios)

NextSponge ==
    \/ CallHash \/ HashLoop \/ HashLoopPanic \/ HashAfterLoop
    \/ CallHashElements \/ HashElementsLoop \/ HashElementsAfterLoop
    \/ Permutation
    \/ Return

SpecSponge == InitSponge /\ [][NextSponge]_vars

\* the elements a u64 is hashed as: one if it is below the modulus, else two
ValueElements(value) ==
    IF LessU64(value, MODULUS)
    THEN <<BaseElement_new(value)>>
    ELSE <<BaseElement_new(value), BaseElement_new(DivU64(value, MODULUS))>>

\* merge([a, b]) followed by hash_elements of the elements of a and b, and
\* merge_with_int(seed, value) followed by hash_elements of the elements of
\* seed and value
EquivScenarios ==
    UNION { { <<h, <<Call("merge", <<a, b>>), Call("hash_elements", a \o b)>> >> :
                  a \in Digests(h), b \in Digests(h) }
            \cup
            { <<h, <<Call("merge_with_int", <<seed, value>>),
                     Call("hash_elements", seed \o ValueElements(value))>> >> :
                  seed \in Digests(h), value \in IntValues } : h \in Instantiations }

InitEquiv == InitFrom(EquivScenarios)

NextEquiv ==
    \/ CallMerge \/ CallMergeWithInt
    \/ CallHashElements \/ HashElementsLoop \/ HashElementsAfterLoop
    \/ Permutation
    \/ Return

SpecEquiv == InitEquiv /\ [][NextEquiv]_vars

\* everything together
Init ==
    InitFrom(HashScenarios \cup MergeScenarios \cup PermScenarios \cup MdsScenarios
             \cup ElementScenarios \cup RepeatScenarios \cup ThreadScenarios
             \cup SpongeScenarios \cup EquivScenarios
             \cup { <<h, <<>> >> : h \in Instantiations })

Next ==
    \/ CallHash \/ HashLoop \/ HashLoopPanic \/ HashAfterLoop
    \/ CallHashElements \/ HashElementsLoop \/ HashElementsAfterLoop
    \/ CallMerge \/ CallMergeWithInt \/ CallMerge4Digests
    \/ CallApplyPermutation
    \/ CallMdsMultiply \/ MdsMultiply
    \/ Permutation
    \/ Return \/ Merge4DigestsReturn
    \/ CallSpawn \/ Switch
    \/ new \/ default \/ add_segment_elements \/ get_segment_elements
    \/ ReadMds \/ ReadLookup

Spec == Init /\ [][Next]_vars

(***************************************************************************)
(* Properties of hash.                                                     *)
(***************************************************************************)
HashThenHashElements ==
    Len(calls) = 2 /\ calls[1].fn = "hash" /\ calls[2].fn = "hash_elements"

HashThenHashExtended ==
    Len(calls) = 2 /\ calls[1].fn = "hash" /\ calls[2].fn = "hash"

\* C1: hash(bytes) completes for a byte slice of any length: no iteration of
\* the chunk loop aborts.
C1_HashCompletes == ~(fn = "hash" /\ pc = "panic")

\* C2: in hash(bytes) the last chunk, and only it, is absorbed from a zeroed
\* buffer with the byte 1 behind the chunk; every earlier chunk is absorbed
\* with byte 7 equal to 0; and a call that gets through its loop has absorbed
\* every chunk.
C2_OnlyLastChunkPadded ==
    fn = "hash" =>
        /\ \A e \in 1..Len(trace) :
              trace[e].ev = "absorb" => trace[e].buf = DocumentedBuffer(arg, trace[e].idx)
        /\ pc = "finish" =>
              Cardinality({ e \in 1..Len(trace) : trace[e].ev = "absorb" })
                  = (Len(arg) + 6) \div 7

\* the states a call went through: after initialisation, after every
\* absorption, after every permutation
StatesOf(t) == [e \in 1..Len(t) |-> <<t[e].ev, t[e].st>>]

\* C3: for a non-empty byte string, hash(bytes) returns what hash_elements
\* returns on the documented element sequence, and the two calls go through
\* the same states after every absorption and permutation.
C3_HashEqualsHashElements ==
    (HashThenHashElements /\ Len(hist) = 2 /\ calls[1].arg # <<>>) =>
        /\ hist[1].digest = hist[2].digest
        /\ StatesOf(hist[1].trace) = StatesOf(hist[2].trace)

\* what a call fed the permutation: the length tag and the absorbed elements
AbsorbedBy(t) ==
    LET absorbed == SelectSeq(t, LAMBDA e : e.ev = "absorb")
    IN  [e \in 1..Len(absorbed) |-> absorbed[e].elem]

FedBy(h, outcome) ==
    <<outcome.trace[1].st[CAPACITY_RANGE(h).start + 1], AbsorbedBy(outcome.trace)>>

\* C4: hash(b ++ [0]) and hash(b) both return, differ, and were fed different
\* (length tag, element sequence) pairs.
C4_TrailingZeroChangesHash ==
    HashThenHashExtended =>
        /\ pc # "panic"
        /\ Len(hist) = 2 =>
              /\ hist[1].digest # hist[2].digest
              /\ FedBy(inst, hist[1]) # FedBy(inst, hist[2])

(***************************************************************************)
(* Properties of the MDS kernel and of the two-to-one functions.           *)
(***************************************************************************)
\* C5: mds_multiply leaves the state equal to the product of the 16x16 MDS
\* matrix with the state it was given.
C5_MdsMultiplyIsMatrixProduct ==
    (fn = "mds_multiply" /\ pc = "finish") => state = apply_mds_naive(MDS(inst), arg)

C5_Witness ==
    /\ fn = "mds_multiply" /\ pc = "finish"
    /\ arg = Lanes("mixed", 16)
    /\ state # arg

\* the integer a reduced element stands for is n
StandsFor(x, n) == IsCanonical(x) /\ as_int(x) = n

ExpectedMergeTag(h) ==
    CASE h = "Tip4_256" -> 12 [] h = "Tip4p_256" -> 8 [] h = "Tip5_320" -> 10

MergeLayout(h, a, b, st) ==
    /\ Len(st) = STATE_WIDTH(h)
    /\ \A k \in 1..STATE_WIDTH(h) :
          IF k <= DIGEST_SIZE(h) THEN st[k] = a[k]
          ELSE IF k <= 2 * DIGEST_SIZE(h) THEN st[k] = b[k - DIGEST_SIZE(h)]
          ELSE IF k = RATE_WIDTH(h) + 1 THEN StandsFor(st[k], U64Of(ExpectedMergeTag(h)))
          ELSE st[k] = FieldZERO

\* a completed call ran one permutation, on the state it had built, and
\* returned lanes 0..DIGEST_SIZE-1 of the result
OnePermutation(h, outcome) ==
    /\ outcome.perms = 1
    /\ Len(outcome.trace) = 2
    /\ outcome.trace[2].ev = "permutation"
    /\ outcome.digest = SubSeq(outcome.trace[2].st, 1, DIGEST_SIZE(h))

MergeWithIntLayout(h, seed, value, st) ==
    /\ Len(st) = STATE_WIDTH(h)
    /\ \A k \in 1..STATE_WIDTH(h) :
          IF k <= DIGEST_SIZE(h) THEN st[k] = seed[k]
          ELSE IF k = DIGEST_SIZE(h) + 1
               THEN StandsFor(st[k], IF LessU64(value, MODULUS) THEN value
                                     ELSE wrapping_sub(value, MODULUS))
          ELSE IF k = DIGEST_SIZE(h) + 2
               THEN IF LessU64(value, MODULUS) THEN st[k] = FieldZERO
                    ELSE StandsFor(st[k], U64Of(1))
          ELSE IF k = RATE_WIDTH(h) + 1
               THEN StandsFor(st[k], U64Of(IF LessU64(value, MODULUS)
                                           THEN DIGEST_SIZE(h) + 1
                                           ELSE DIGEST_SIZE(h) + 2))
          ELSE st[k] = FieldZERO

ExpectedSchedule ==
    [k \in 1..15 |->
        [helper |-> <<"apply_sbox", "apply_mds", "add_constants">>[((k - 1) % 3) + 1],
         round  |-> (k - 1) \div 3]]

\* C8: apply_permutation runs rounds 0, 1, 2, 3, 4 in this order and no
\* other, each round being the S-box layer, then the MDS multiplication, then
\* the addition of row `round` of ARK.
C8_RoundOrder ==
    /\ Len(rlog) <= 15
    /\ \A k \in 1..Len(rlog) : rlog[k] = ExpectedSchedule[k]
    /\ pc = "apply_permutation" => Len(rlog) = 3 * round + helper - 1
    /\ pc # "apply_permutation" => Len(rlog) \in {0, 15}

C8_Witness ==
    /\ pc = "finish" /\ fn = "apply_permutation" /\ Len(rlog) = 15
    /\ arg = Lanes("count", STATE_WIDTH(inst))

\* the S-box layer as specified: bytes of the word through the table, the
\* seventh power by repeated multiplication
LookupWord(h, w) ==
    [m \in 1..4 |-> LOOKUP_TABLE(h)[(w[m] % 256) + 1]
                    + 256 * LOOKUP_TABLE(h)[(w[m] \div 256) + 1]]

\* x^n by n - 1 multiplications by x, each product computed before the next
RECURSIVE PowerOf(_, _)
PowerOf(x, n) ==
    IF n = 1 THEN x
    ELSE CHOOSE y \in { FieldMul(x, q) : q \in { PowerOf(x, n - 1) } } : TRUE

SeventhPower(x) == PowerOf(x, 7)

SboxLayer(h, st) ==
    [k \in 1..Len(st) |-> IF k \in 1..4 THEN LookupWord(h, st[k]) ELSE SeventhPower(st[k])]

\* C9: the S-box layer replaces lanes 0..3 by their byte-wise lookup and every
\* other lane by its seventh power, each lane from its own old value.
C9_SboxLayer ==
    [][(pc = "apply_permutation" /\ round < NUM_ROUNDS /\ apply_round[helper] = "apply_sbox")
        => state' = ArrayOf(SboxLayer(inst, state))]_vars

C9_Witness ==
    /\ pc = "apply_permutation" /\ Len(rlog) = 4 /\ rlog[4].helper = "apply_sbox"
    /\ arg = Lanes("mixed", STATE_WIDTH(inst))

AllCanonical(st) == \A k \in 1..Len(st) : IsCanonical(st[k])

\* C10: from a state of reduced words, apply_permutation has reduced words in
\* every lane at every round boundary, and in lanes 0..3 after every S-box
\* layer.
C10_CanonicalAtRoundBoundaries ==
    (pc = "apply_permutation" /\ AllCanonical(trace[1].st)) =>
        /\ helper = 1 => AllCanonical(state)
        /\ helper = 2 => \A k \in 1..4 : IsCanonical(state[k])

C10_Witness ==
    /\ pc = "apply_permutation" /\ round = 3 /\ helper = 1
    /\ arg = Lanes("top", STATE_WIDTH(inst))

(***************************************************************************)
(* Properties of merge_4_digests, of the empty input and of the length     *)
(* tag.                                                                    *)
(***************************************************************************)
\* the field sum of the elements of a sequence
RECURSIVE SumOf(_)
SumOf(xs) == IF xs = <<>> THEN FieldZERO ELSE FieldAdd(Head(xs), SumOf(Tail(xs)))

\* lanes j - 1, j + 3, j + 7 and j + 11 of a 16-lane state
Stripes(st, j) == <<st[j], st[j + 4], st[j + 8], st[j + 12]>>

\* C11: Tip4_256::merge_4_digests takes the 16 elements of the four digests
\* as the initial state, permutes a copy of it once, and returns in lane j the
\* field sum of lanes j, j+4, j+8, j+12 of the initial and of the final state;
\* the summation leaves both states as they were.
C11_Merge4Digests ==
    /\ (fn = "merge_4_digests" /\ Len(trace) >= 1) =>
          /\ initial_state = arg[1] \o arg[2] \o arg[3] \o arg[4]
          /\ trace[1].st = initial_state
    /\ (fn = "merge_4_digests" /\ pc = "apply_permutation" /\ rlog = <<>>) =>
          state = initial_state
    /\ \A c \in 1..Len(hist) :
          hist[c].fn = "merge_4_digests" =>
              /\ hist[c].perms = 1
              /\ Len(hist[c].trace) = 2
              /\ hist[c].trace[2].ev = "permutation"
              /\ hist[c].state = hist[c].trace[2].st
              /\ hist[c].initial = hist[c].trace[1].st
              /\ Len(hist[c].digest) = 4
              /\ \A j \in 1..4 :
                    hist[c].digest[j] =
                        SumOf(Stripes(hist[c].initial, j) \o Stripes(hist[c].state, j))

C11_Witness ==
    /\ Len(hist) = 1 /\ hist[1].fn = "merge_4_digests"
    /\ hist[1].arg = <<Lanes("count", 4), Lanes("top", 4), Lanes("mixed", 4), Lanes("top", 4)>>
    /\ hist[1].state # hist[1].initial

\* C12: hash of the empty byte string and hash_elements of the empty sequence
\* absorb nothing, run no permutation and return the all-zero digest, the
\* whole state being zero.
C12_EmptyInput ==
    /\ (fn \in {"hash", "hash_elements"} /\ arg = <<>>) =>
          /\ state = ZeroState(STATE_WIDTH(inst))
          /\ pc \in {"hash_loop", "hash_elements_loop", "finish"}
          /\ perms = 0
    /\ \A c \in 1..Len(hist) :
          (hist[c].fn \in {"hash", "hash_elements"} /\ hist[c].arg = <<>>) =>
              /\ hist[c].perms = 0
              /\ Len(hist[c].trace) = 1 /\ hist[c].trace[1].ev = "init"
              /\ hist[c].digest = ZeroState(DIGEST_SIZE(inst))
              /\ hist[c].state = ZeroState(STATE_WIDTH(inst))

C12_Witness ==
    /\ Len(hist) = 2
    /\ hist[1].fn = "hash" /\ hist[1].arg = <<>>
    /\ hist[2].fn = "hash_elements" /\ hist[2].arg = <<>>
    /\ hist[2].digest = ZeroState(DIGEST_SIZE(inst))

ElementsThenExtended ==
    /\ Len(calls) = 2
    /\ calls[1].fn = "hash_elements" /\ calls[2].fn = "hash_elements"
    /\ calls[2].arg = calls[1].arg \o <<FieldZERO>>

HasPermutation(t) == \E k \in 1..Len(t) : t[k].ev = "permutation"

\* the state the first permutation of a call was applied to
FirstPermutationInput(t) ==
    LET first == CHOOSE k \in 1..Len(t) :
                     /\ t[k].ev = "permutation"
                     /\ \A j \in 1..(k - 1) : t[j].ev # "permutation"
    IN  t[first - 1].st

SameCallTwice == Len(calls) = 2 /\ calls[1] = calls[2]

\* sequence s is the beginning of sequence t
IsPrefix(s, t) == Len(s) <= Len(t) /\ SubSeq(t, 1, Len(s)) = s

OutcomesIn(h) == { h[c] : c \in { c \in 1..Len(h) : h[c].fn # "spawn" } }

Outcomes == OutcomesIn(hist) \cup UNION { OutcomesIn(parked[t].hist) : t \in 1..Len(parked) }

MergeFunctions == {"merge", "merge_with_int", "merge_4_digests"}

\* C16: merge, merge_with_int and Tip4_256::merge_4_digests never abort:
\* every copy of digest elements into the state is between slices of equal
\* length (2 * DIGEST_SIZE elements for merge, DIGEST_SIZE for the seed of
\* merge_with_int, 4 * DIGEST_SIZE = STATE_WIDTH for merge_4_digests), the
\* call is on its way to its return, and what it returns has DIGEST_SIZE
\* elements.
C16_MergesAreTotal ==
    /\ fn \in MergeFunctions =>
          /\ pc \in {"apply_permutation", "finish", "apply_jive4_summation"}
          /\ pc = "apply_permutation" => round \in 0..NUM_ROUNDS
          /\ Len(state) = STATE_WIDTH(inst)
    /\ fn = "merge" =>
          /\ Len(arg[1] \o arg[2]) = 2 * DIGEST_SIZE(inst)
          /\ MergeRange(inst).end - MergeRange(inst).start = 2 * DIGEST_SIZE(inst)
          /\ MergeRange(inst).end <= STATE_WIDTH(inst)
    /\ fn = "merge_with_int" =>
          /\ Len(arg[1]) = DIGEST_SIZE(inst)
          /\ INPUT1_RANGE(inst).end - INPUT1_RANGE(inst).start = DIGEST_SIZE(inst)
          /\ INPUT2_RANGE(inst).start + 1 < CAPACITY_RANGE(inst).start
    /\ fn = "merge_4_digests" =>
          /\ Len(arg[1] \o arg[2] \o arg[3] \o arg[4]) = 4 * DIGEST_SIZE(inst)
          /\ 4 * DIGEST_SIZE(inst) = STATE_WIDTH(inst)
          /\ Len(initial_state) = STATE_WIDTH(inst)
    /\ \A c \in 1..Len(hist) :
          hist[c].fn \in MergeFunctions => Len(hist[c].digest) = DIGEST_SIZE(inst)

C16_Witness ==
    /\ pc = "idle" /\ Len(hist) = 1 /\ hist[1].fn \in MergeFunctions
    /\ inst = "Tip5_320" /\ hist[1].fn = "merge"
    /\ Len(hist[1].digest) = 5

(***************************************************************************)
(* Properties of AuxTraceRandElements.                                     *)
(***************************************************************************)
\* the last operation before operation k that made a container, 0 for the
\* construction the client starts from
MadeAt(k) ==
    LET made == { j \in 1..(k - 1) : hist[j].fn \in {"new", "default"} }
    IN  IF made = {} THEN 0 ELSE CHOOSE j \in made : \A m \in made : m <= j

\* the sequences added to the container between its making and operation k
AddedBefore(k) ==
    LET adds == SelectSeq(SubSeq(hist, MadeAt(k) + 1, k - 1),
                          LAMBDA op : op.fn = "add_segment_elements")
    IN  [n \in 1..Len(adds) |-> adds[n].arg]

\* C17: after new() and add_segment_elements of s_0, ..., s_{k-1},
\* get_segment_elements(i) returns s_i for every i < k; the container holds
\* the sequences in the order they were added, whatever was added or read
\* since.
C17_SegmentsInInsertionOrder ==
    /\ segments = AddedBefore(Len(hist) + 1)
    /\ \A k \in 1..Len(hist) :
          hist[k].fn = "get_segment_elements" =>
              /\ hist[k].arg < Len(AddedBefore(k))
              /\ hist[k].result = AddedBefore(k)[hist[k].arg + 1]

C17_Witness ==
    /\ Len(hist) = 4
    /\ hist[1].fn = "add_segment_elements" /\ hist[1].arg = <<FieldZERO>>
    /\ hist[2].fn = "add_segment_elements" /\ hist[2].arg = <<FieldONE, FieldZERO>>
    /\ hist[3].fn = "get_segment_elements" /\ hist[3].arg = 1
    /\ hist[3].result = <<FieldONE, FieldZERO>>
    /\ hist[4].fn = "get_segment_elements" /\ hist[4].arg = 0
    /\ hist[4].result = <<FieldZERO>>

\* C18: get_segment_elements(i) aborts exactly when i is not below the
\* number of segments added so far, a fresh container included, and leaves
\* the container as it was; no other operation of the container aborts.
C18_OnlyReadPastEndAborts ==
    /\ pc = "panic" =>
          /\ fn = "get_segment_elements"
          /\ arg >= Len(AddedBefore(Len(hist) + 1))
          /\ segments = AddedBefore(Len(hist) + 1)
    /\ \A k \in 1..Len(hist) :
          hist[k].fn = "get_segment_elements" => hist[k].arg < Len(AddedBefore(k))

C18_Witness ==
    /\ pc = "panic" /\ fn = "get_segment_elements"
    /\ Len(hist) = 3 /\ hist[3].fn = "default" /\ hist[1].fn = "add_segment_elements"
    /\ arg = 0

(***************************************************************************)
(* Properties of the constant tables.                                      *)
(***************************************************************************)
\* C19: every MDS matrix is square of the state width and is the
\* right-rotation circulant of its first row, MDS[i][j] = MDS[0][(j - i) mod W];
\* the matrix of Tip5_320 is that of Tip4_256.
C19_MdsIsCirculant ==
    /\ Len(MDS(inst)) = STATE_WIDTH(inst)
    /\ \A c \in 1..Len(hist) :
          hist[c].fn = "MDS" =>
              /\ Len(MDS(inst)[hist[c].arg[1] + 1]) = STATE_WIDTH(inst)
              /\ hist[c].result =
                    MDS(inst)[1][((hist[c].arg[2] - hist[c].arg[1]) % STATE_WIDTH(inst)) + 1]
              /\ inst = "Tip5_320" =>
                    hist[c].result = MDS("Tip4_256")[hist[c].arg[1] + 1][hist[c].arg[2] + 1]

C19_Witness ==
    /\ Len(hist) = 1 /\ hist[1].fn = "MDS" /\ inst = "Tip4p_256"
    /\ hist[1].arg = <<11, 3>>
    /\ hist[1].result = MDS(inst)[1][5]

\* C20: LOOKUP_TABLE has 256 entries, all of them bytes, no byte is the entry
\* at two indices, and the three instantiations have the same table.
C20_LookupIsPermutation ==
    /\ Len(LOOKUP_TABLE(inst)) = 256
    /\ \A c \in 1..Len(hist) :
          hist[c].fn = "LOOKUP_TABLE" =>
              /\ hist[c].result \in 0..255
              /\ \A b \in 0..255 :
                    LOOKUP_TABLE(inst)[b + 1] = hist[c].result => b = hist[c].arg
              /\ \A h \in Instantiations :
                    LOOKUP_TABLE(h)[hist[c].arg + 1] = hist[c].result

C20_Witness ==
    /\ Len(hist) = 1 /\ hist[1].fn = "LOOKUP_TABLE" /\ inst = "Tip5_320"
    /\ hist[1].arg = 255 /\ hist[1].result = 255

\* C21: in every instantiation the rate range starts at lane 0 and ends where
\* the capacity range starts, the capacity range ends at STATE_WIDTH, the
\* digest range starts at lane 0 and is no longer than the rate, and the widths
\* (state, rate, capacity, digest) are (16, 12, 4, 4), (12, 8, 4, 4) and
\* (16, 10, 6, 5); every state in a call has STATE_WIDTH lanes and every
\* digest returned DIGEST_SIZE elements.
CAPACITY_WIDTH(h) == CAPACITY_RANGE(h).end - CAPACITY_RANGE(h).start

Widths(h) == <<STATE_WIDTH(h), RATE_WIDTH(h), CAPACITY_WIDTH(h), DIGEST_SIZE(h)>>

C21_RangesPartitionState ==
    /\ \A h \in Instantiations :
          /\ RATE_RANGE(h).start = 0
          /\ RATE_RANGE(h).end = RATE_WIDTH(h)
          /\ CAPACITY_RANGE(h).start = RATE_WIDTH(h)
          /\ CAPACITY_RANGE(h).end = STATE_WIDTH(h)
          /\ RATE_WIDTH(h) + CAPACITY_WIDTH(h) = STATE_WIDTH(h)
          /\ DIGEST_RANGE(h).start = 0
          /\ DIGEST_RANGE(h).end = DIGEST_SIZE(h)
          /\ DIGEST_SIZE(h) <= RATE_WIDTH(h)
    /\ Widths("Tip4_256") = <<16, 12, 4, 4>>
    /\ Widths("Tip4p_256") = <<12, 8, 4, 4>>
    /\ Widths("Tip5_320") = <<16, 10, 6, 5>>
    /\ pc \notin {"idle", "panic"} => Len(state) = STATE_WIDTH(inst)
    /\ \A c \in 1..Len(hist) :
          /\ Len(hist[c].digest) = DIGEST_SIZE(inst)
          /\ Len(hist[c].state) = STATE_WIDTH(inst)

C21_Witness ==
    /\ inst = "Tip5_320"
    /\ Len(hist) = 1 /\ hist[1].fn = "hash_elements"
    /\ Len(hist[1].arg) = RATE_WIDTH(inst) + 1
    /\ Len(hist[1].digest) = 5
    /\ Len(hist[1].state) = 16
    /\ hist[1].digest = SubSeq(hist[1].state, 1, 5)

\* tip4/tests.rs, apply_permutation: the state [0, 1, ..., 15] and the expected
\* vector, as decimal numbers in groups of four digits
apply_permutation_test_state == ArrayOf([k \in 1..16 |-> BaseElement_new(U64Of(k - 1))])

apply_permutation_test_expected ==
    <<
        <<0729, 6980, 7994, 9727, 1299>>,
        <<0693, 2375, 6516, 8370, 2735>>,
        <<0382, 2213, 7890, 2804, 5974>>,
        <<0050, 5530, 2938, 3372, 9654>>,
        <<1760, 5892, 6911, 6463, 8210>>,
        <<0147, 0910, 6304, 0046, 9657>>,
        <<0463, 9730, 6927, 5871, 3667>>,
        <<1419, 0377, 5740, 2875, 4122>>,
        <<1799, 6505, 7838, 2487, 9381>>,
        <<0096, 1936, 6677, 8555, 1774>>,
        <<1228, 7826, 7178, 3266, 1200>>,
        <<1135, 6005, 5059, 0619, 1738>>,
        <<1012, 0826, 2463, 7008, 7028>>,
        <<0106, 0843, 9961, 0863, 0575>>,
        <<0635, 9159, 5951, 5299, 8556>>,
        <<1552, 5397, 6709, 9486, 4633>>
    >>

\* C22: Tip4_256::apply_permutation on the state [0, 1, ..., 15] returns the
\* sixteen elements of the test's expected vector: every lane is the element
\* BaseElement::new makes of the expected number, and stands for that number.
C22_PermutationKnownAnswer ==
    (inst = "Tip4_256" /\ fn = "apply_permutation" /\ pc = "finish"
        /\ arg = apply_permutation_test_state) =>
        /\ state = ElementsOfRow(apply_permutation_test_expected)
        /\ \A k \in 1..16 : as_int(state[k]) = Dec(apply_permutation_test_expected[k])

C22_Witness ==
    /\ inst = "Tip4_256" /\ fn = "apply_permutation" /\ pc = "finish"
    /\ arg = apply_permutation_test_state
    /\ perms = 1 /\ Len(rlog) = 3 * NUM_ROUNDS
    /\ as_int(arg[16]) = U64Of(15)
    /\ as_int(state[1]) = Dec(<<0729, 6980, 7994, 9727, 1299>>)
    /\ as_int(state[16]) = Dec(<<1552, 5397, 6709, 9486, 4633>>)

\* the number of elements of a call of hash or hash_elements
ElementCount(name, a) == IF name = "hash" THEN (Len(a) + 6) \div 7 ELSE Len(a)

\* ceil(n / rw)
Blocks(n, rw) == (n + rw - 1) \div rw

\* in the events t of a call on n elements every permutation follows the
\* absorption that filled the rate, or the last absorption when that left
\* the rate partly filled, and every absorption that filled the rate is
\* followed by a permutation
PermutationsInPlace(t, n, rw) ==
    /\ \A e \in 1..Len(t) :
          t[e].ev = "permutation" =>
              /\ e > 1 /\ t[e - 1].ev = "absorb"
              /\ \/ (t[e - 1].idx + 1) % rw = 0
                 \/ t[e - 1].idx = n - 1 /\ n % rw # 0
    /\ \A e \in 1..(Len(t) - 1) :
          (t[e].ev = "absorb" /\ (t[e].idx + 1) % rw = 0) => t[e + 1].ev = "permutation"

\* C23: every call of hash and of hash_elements on n elements returns after
\* exactly ceil(n / RATE_WIDTH) permutations, one right after each absorption
\* that fills the rate, with the rate cursor back at 0, and one after the loop
\* exactly when n is no multiple of RATE_WIDTH; hash of 14 bytes has one
\* permutation, after its two absorptions.
C23_PermutationCount ==
    /\ pc # "panic"
    /\ pc \in {"hash_loop", "hash_elements_loop"} =>
          /\ i = pos % RATE_WIDTH(inst)
          /\ perms = pos \div RATE_WIDTH(inst)
    /\ fn \in {"hash", "hash_elements"} =>
          PermutationsInPlace(trace, ElementCount(fn, arg), RATE_WIDTH(inst))
    /\ \A c \in 1..Len(hist) :
          LET n == ElementCount(hist[c].fn, hist[c].arg)
          IN  /\ hist[c].perms = Blocks(n, RATE_WIDTH(inst))
              /\ PermutationsInPlace(hist[c].trace, n, RATE_WIDTH(inst))
              /\ (hist[c].fn = "hash" /\ Len(hist[c].arg) = 14) =>
                    /\ hist[c].perms = 1
                    /\ Len(hist[c].trace) = 4
                    /\ hist[c].trace[4].ev = "permutation"

\* the events t of a call on n elements start from the zero state with n in
\* the first capacity lane, and every absorption changes one lane only, the
\* rate lane (idx mod RATE_WIDTH), to the sum of its value and the element
TaggedThenAdded(h, t, n) ==
    /\ t[1].ev = "init"
    /\ \A k \in 1..STATE_WIDTH(h) :
          IF k = RATE_WIDTH(h) + 1
          THEN StandsFor(t[1].st[k], U64Of(n))
          ELSE t[1].st[k] = FieldZERO
    /\ \A e \in 2..Len(t) :
          /\ t[e].ev \in {"absorb", "permutation"}
          /\ t[e].ev = "absorb" =>
                t[e].st = [t[e - 1].st EXCEPT ![(t[e].idx % RATE_WIDTH(h)) + 1] =
                              FieldAdd(@, t[e].elem)]

\* the element absorbed at each event is the input's: element idx of the
\* argument of hash_elements, the little-endian u64 of the buffer of hash
AbsorbsInput(name, a, t) ==
    \A e \in 2..Len(t) :
        t[e].ev = "absorb" =>
            t[e].elem = IF name = "hash_elements"
                        THEN a[t[e].idx + 1]
                        ELSE BaseElement_new(from_le_bytes(t[e].buf))

AbsorbsIntoRate(h, t) ==
    \A e \in 2..Len(t) :
        t[e].ev = "absorb" =>
            /\ Slice(t[e].st, CAPACITY_RANGE(h)) = Slice(t[e - 1].st, CAPACITY_RANGE(h))
            /\ \E lane \in 0..(RATE_WIDTH(h) - 1) :
                  t[e].st = [t[e - 1].st EXCEPT ![lane + 1] = t[e].st[lane + 1]]

\* C25: at every step of the loops of hash and hash_elements the rate cursor
\* i is at least 0 and less than RATE_WIDTH; every absorption changes a rate
\* lane and leaves the capacity lanes RATE_WIDTH..STATE_WIDTH-1 as they were,
\* so that after the initial state only apply_permutation changes them.
C25_CursorInRate ==
    /\ pc \in {"hash_loop", "hash_elements_loop"} =>
          /\ i \in 0..(RATE_WIDTH(inst) - 1)
          /\ RATE_RANGE(inst).start + i < RATE_RANGE(inst).end
    /\ fn \in {"hash", "hash_elements"} => AbsorbsIntoRate(inst, trace)
    /\ \A c \in 1..Len(hist) : AbsorbsIntoRate(inst, hist[c].trace)

C25_Witness ==
    /\ inst = "Tip4_256" /\ fn = "hash" /\ pc = "hash_loop"
    /\ i = RATE_WIDTH(inst) - 1 /\ pos = 2 * RATE_WIDTH(inst) - 1 /\ perms = 1
    /\ trace[Len(trace)].ev = "absorb"
    /\ trace[Len(trace)].st[RATE_WIDTH(inst) - 1] # trace[Len(trace) - 1].st[RATE_WIDTH(inst) - 1]
    /\ Slice(state, CAPACITY_RANGE(inst)) # Slice(trace[1].st, CAPACITY_RANGE(inst))

\* the state a call handed to its last permutation: the state of the event
\* before it
PrePermutationState(t) == t[Len(t) - 1].st

\* the second call is hash_elements and has the digest, the first capacity
\* lane before the permutation and the whole state before the permutation of
\* the first call
SameAsHashElements(h, first, second) ==
    /\ second.fn = "hash_elements"
    /\ second.perms = 1 /\ first.perms = 1
    /\ StandsFor(PrePermutationState(first.trace)[RATE_WIDTH(h) + 1], U64Of(Len(second.arg)))
    /\ PrePermutationState(first.trace) = PrePermutationState(second.trace)
    /\ first.digest = second.digest

\* C26: in every instantiation merge([a, b]) returns the digest of
\* hash_elements on the elements of a followed by those of b; the number
\* merge writes into the first capacity lane is the number of those elements,
\* and the two calls hand the same state to the permutation.
C26_MergeIsHashElements ==
    (Len(hist) = 2 /\ hist[1].fn = "merge") =>
        /\ hist[2].arg = hist[1].arg[1] \o hist[1].arg[2]
        /\ Len(hist[2].arg) = 2 * DIGEST_SIZE(inst)
        /\ SameAsHashElements(inst, hist[1], hist[2])

\* the elements of a digest followed by the element of value when value < p,
\* and by the elements of value mod p = value - p and of value / p = 1
\* otherwise
SeedThenValue(seed, value) ==
    IF LessU64(value, MODULUS)
    THEN seed \o <<BaseElement_new(value)>>
    ELSE seed \o <<BaseElement_new(wrapping_sub(value, MODULUS)), BaseElement_new(U64Of(1))>>

\* C27: in every instantiation merge_with_int(seed, value) returns the digest
\* of hash_elements on the elements of seed followed by value when value < p,
\* and followed by value mod p and value / p otherwise; the number in the
\* first capacity lane is the number of those elements and the two calls hand
\* the same state to the permutation.
C27_MergeWithIntIsHashElements ==
    (Len(hist) = 2 /\ hist[1].fn = "merge_with_int") =>
        /\ hist[2].arg = SeedThenValue(hist[1].arg[1], hist[1].arg[2])
        /\ Len(hist[2].arg) =
              DIGEST_SIZE(inst) + (IF LessU64(hist[1].arg[2], MODULUS) THEN 1 ELSE 2)
        /\ SameAsHashElements(inst, hist[1], hist[2])

C27_Witness ==
    /\ inst = "Tip5_320" /\ Len(hist) = 2
    /\ hist[1].fn = "merge_with_int" /\ hist[2].fn = "hash_elements"
    /\ hist[1].arg = <<Lanes("mixed", 5), AllOnesWord>>
    /\ Len(hist[2].arg) = 7
    /\ as_int(hist[2].arg[6]) = <<65534, 65535, 0, 0>>
    /\ as_int(hist[2].arg[7]) = U64Of(1)
    /\ hist[1].digest = hist[2].digest
    /\ hist[1].digest # Lanes("zero", 5)

\* value + p fits in a u64: value < 2^64 - p = 2^32 - 1
FitsWithModulus(value) == LessU64(value, <<65535, 65535, 0, 0>>)

\* C28: the state merge_with_int hands to the permutation is that of no other
\* pair (seed, value); the states for value and value + p, both below 2^64,
\* have the same lane DIGEST_SIZE, and differ in lane DIGEST_SIZE + 1 and in
\* the first capacity lane.
C28_MergeWithIntInjective ==
    (fn = "merge_with_int" /\ pc = "apply_permutation" /\ rlog = <<>>) =>
        /\ \A seed \in Digests(inst), value \in IntValues :
              <<seed, value>> # arg => merge_with_int_state(inst, seed, value) # state
        /\ FitsWithModulus(arg[2]) =>
              LET other == merge_with_int_state(inst, arg[1], wrapping_add(arg[2], MODULUS))
              IN  /\ other[DIGEST_SIZE(inst) + 1] = state[DIGEST_SIZE(inst) + 1]
                  /\ other[DIGEST_SIZE(inst) + 2] # state[DIGEST_SIZE(inst) + 2]
                  /\ other[RATE_WIDTH(inst) + 1] # state[RATE_WIDTH(inst) + 1]
                  /\ other # state

C28_Witness ==
    /\ inst = "Tip4p_256" /\ fn = "merge_with_int" /\ pc = "apply_permutation" /\ rlog = <<>>
    /\ arg = <<Lanes("top", 4), U64Of(1)>>
    /\ wrapping_add(arg[2], MODULUS) \in IntValues
    /\ state[5] = merge_with_int_state(inst, arg[1], <<2, 0, 65535, 65535>>)[5]
    /\ state[5] = FieldONE
    /\ state # merge_with_int_state(inst, arg[1], <<2, 0, 65535, 65535>>)

\* C29: for every u64 value the quotient value / p is 0 or 1, and is 1
\* exactly when value >= p (p is above 2^63); merge_with_int writes lane
\* DIGEST_SIZE + 1 exactly then, and the lane then holds 1.
C29_QuotientIsBit ==
    /\ MODULUS[4] >= 32768
    /\ (fn = "merge_with_int" /\ pc = "apply_permutation" /\ rlog = <<>>) =>
          LET value    == arg[2]
              quotient == DivU64(value, MODULUS)
              lane     == state[DIGEST_SIZE(inst) + 2]
          IN  /\ quotient \in {U64Zero, U64Of(1)}
              /\ quotient = U64Of(1) <=> ~LessU64(value, MODULUS)
              /\ LessU64(IF quotient = U64Zero THEN value ELSE wrapping_sub(value, MODULUS),
                         MODULUS)
              /\ StandsFor(lane, quotient)
              /\ lane = IF LessU64(value, MODULUS) THEN FieldZERO ELSE FieldONE
              /\ lane # FieldZERO <=> ~LessU64(value, MODULUS)

C29_Witness ==
    /\ inst = "Tip4_256" /\ fn = "merge_with_int" /\ pc = "apply_permutation" /\ rlog = <<>>
    /\ arg[2] = AllOnesWord
    /\ DivU64(arg[2], MODULUS) = U64Of(1)
    /\ state[6] = FieldONE
    /\ as_int(state[5]) = <<65534, 65535, 0, 0>>

\* every buffer among the events t is, as a little-endian u64, below 2^57 and
\* below p, the element absorbed stands for that number, and two events with
\* different buffers have different elements
BuffersBelowModulus(t) ==
    /\ \A e \in 1..Len(t) :
          t[e].ev = "absorb" =>
              /\ Len(t[e].buf) = 8
              /\ t[e].buf[8] \in {0, 1}
              /\ LessU64(from_le_bytes(t[e].buf), <<0, 0, 0, 512>>)
              /\ LessU64(from_le_bytes(t[e].buf), MODULUS)
              /\ StandsFor(t[e].elem, from_le_bytes(t[e].buf))
    /\ \A d, e \in 1..Len(t) :
          (t[d].ev = "absorb" /\ t[e].ev = "absorb" /\ t[d].buf # t[e].buf) =>
              t[d].elem # t[e].elem

\* C30: every 8-byte buffer hash makes a field element of is, read as a
\* little-endian u64, below 2^57 and so below p: the element stands for the
\* buffer's number itself, and different buffers are absorbed as different
\* elements.
C30_BuffersBelowModulus ==
    /\ fn = "hash" => BuffersBelowModulus(trace)
    /\ \A c \in 1..Len(hist) : hist[c].fn = "hash" => BuffersBelowModulus(hist[c].trace)

C30_Witness ==
    /\ inst = "Tip4p_256" /\ Len(hist) = 1 /\ hist[1].fn = "hash"
    /\ hist[1].arg = Bytes("ones", 7)
    /\ hist[1].trace[2].ev = "absorb"
    /\ hist[1].trace[2].buf = <<255, 255, 255, 255, 255, 255, 255, 1>>
    /\ as_int(hist[1].trace[2].elem) = <<65535, 65535, 65535, 511>>
====
